---- MODULE Spec2Model ----
(***************************************************************************)
(* Asset Generation Orchestration Engine (ai-art-generation).              *)
(*                                                                         *)
(* State-machine model of the image generation handler, the art style      *)
(* service and the task decomposers, written from the Python sources.      *)
(* Python dicts are insertion ordered: a dict is modelled as a sequence of *)
(* [key, ...] records with distinct keys, a list as a sequence, None as    *)
(* the string NoneVal.                                                     *)
(***************************************************************************)
EXTENDS Integers, Sequences, FiniteSets, TLC

VARIABLES
    params,            \* generation_params of the module request (the content tree)
    archive,           \* the leaves of the uploaded asset_references archive
    asset_result,      \* what process_asset_references returned
    generation_tasks,  \* the task list a decomposer returned
    parser,            \* which decomposer produced generation_tasks ("none" before)
    storage,           \* keys of the objects held by blob storage
    uuid_next,         \* source of fresh uuid4 values
    style,             \* the art style resolution in progress (ArtStyleService call)
    job,               \* the single-module generation job in progress
    composite,         \* the complete-game (multi-module) job in progress
    lookup,            \* a reference lookup: its task, its map and what it returned
    composer           \* prompt compositions: their inputs and what each call returned

requestVars == <<params, archive>>
decompVars == <<asset_result, generation_tasks, parser>>
storeVars == <<storage, uuid_next>>

pipelineVars == <<style, job, composite, lookup, composer>>

vars == <<params, archive, asset_result, generation_tasks, parser, storage, uuid_next,
          style, job, composite, lookup, composer>>

-----------------------------------------------------------------------------
(* Bounds of the model *)

MaxCount == 2      \* largest AssetItem.count the client declares
MaxItems == 2      \* declarations (items or empty containers) per request
MaxLeaves == 2     \* leaves of an uploaded archive
MaxImages == 2     \* reference images uploaded with one style request
MaxDeleteFailures == 2  \* deletes that storage refuses during one style resolution

-----------------------------------------------------------------------------
(* Values *)

NoneVal == "None"

Modules == {"symbols", "ui", "backgrounds"}

category_attrs ==
    [symbols |-> <<"base_symbols", "special_symbols">>,
     ui |-> <<"buttons", "panels">>,
     backgrounds |-> <<"background_set">>]

default_resolution_of(module) ==
    IF module = "backgrounds" THEN "1920x1080" ELSE "1024x1024"

Range(s) == {s[i] : i \in DOMAIN s}

BucketNames(module) == Range(category_attrs[module]) \cup {"custom_content"}

Subcategories == {"s1", "s2"}

\* The well-formed ImageAssetItems the client declares (count >= 1, resolution
\* None or WxH): "a" as a single output, as MaxCount outputs at the default
\* resolution or at its own, and "b" as a single output
AssetItems ==
    {[filename |-> "a", description |-> "d1", count |-> 1,
      resolution |-> NoneVal, isdict |-> TRUE],
     [filename |-> "a", description |-> "d2", count |-> MaxCount,
      resolution |-> NoneVal, isdict |-> TRUE],
     [filename |-> "a", description |-> "d3", count |-> MaxCount,
      resolution |-> "512x512", isdict |-> TRUE],
     [filename |-> "b", description |-> "d1", count |-> 1,
      resolution |-> NoneVal, isdict |-> TRUE]}

\* An element in the deprecated, non-dict item format (a bare name).
LegacyItem ==
    [filename |-> "a", description |-> "a", count |-> 1,
     resolution |-> NoneVal, isdict |-> FALSE]

EmptyBucket == [set |-> FALSE, entries |-> <<>>]

\* dict lookups on a sequence of [key, ...] records
HasKey(d, k) == \E i \in DOMAIN d : d[i].key = k
KeyIndex(d, k) == CHOOSE i \in DOMAIN d : d[i].key = k

\* Python truthiness of an Optional[Dict]: None and {} are falsy
Truthy(bucket) == bucket.set /\ bucket.entries # <<>>

RECURSIVE Concat(_)
Concat(ss) == IF ss = <<>> THEN <<>> ELSE Head(ss) \o Concat(Tail(ss))

-----------------------------------------------------------------------------
(* Task decomposition: ImageHandler *)

\* item.resolution or default_resolution
ResolutionOr(item, default_resolution) ==
    IF item.resolution = NoneVal THEN default_resolution ELSE item.resolution

\* the inner "for index in range(1, item.count + 1)" loop of _parse_category_tasks
CategoryItemTasks_OffByOne(category_name, subcategory_name, item, default_resolution) ==
    [index \in 1..(item.count - 1) |->
        [category |-> category_name, subcategory |-> subcategory_name,
         filename |-> item.filename, description |-> item.description,
         index |-> index,
         resolution |-> ResolutionOr(item, default_resolution),
         from_reference |-> FALSE]]

CategoryItemTasks(category_name, subcategory_name, item, default_resolution) ==
    [index \in 1..item.count |->
        [category |-> category_name, subcategory |-> subcategory_name,
         filename |-> item.filename, description |-> item.description,
         index |-> index,
         resolution |-> ResolutionOr(item, default_resolution),
         from_reference |-> FALSE]]

_parse_category_tasks(category_name, category_data, default_resolution) ==
    Concat([e \in DOMAIN category_data |->
        Concat([k \in DOMAIN category_data[e].items |->
            CategoryItemTasks(category_name, category_data[e].key,
                              category_data[e].items[k], default_resolution)])])

_parse_custom_content_tasks(custom_content, default_resolution) ==
    Concat([e \in DOMAIN custom_content |->
        Concat([k \in DOMAIN custom_content[e].items |->
            [index \in 1..custom_content[e].items[k].count |->
                [category |-> "custom", subcategory |-> custom_content[e].key,
                 filename |-> custom_content[e].items[k].filename,
                 description |-> custom_content[e].items[k].description,
                 index |-> index,
                 resolution |-> ResolutionOr(custom_content[e].items[k],
                                             default_resolution),
                 from_reference |-> FALSE]]])])

_parse_generation_tasks(p) ==
    LET cats == category_attrs[p.module]
        fixed == Concat([c \in DOMAIN cats |->
                    IF Truthy(p.content[cats[c]])
                    THEN _parse_category_tasks(cats[c], p.content[cats[c]].entries,
                                               p.default_resolution)
                    ELSE <<>>])
        custom == IF Truthy(p.content["custom_content"])
                  THEN _parse_custom_content_tasks(p.content["custom_content"].entries,
                                                   p.default_resolution)
                  ELSE <<>>
    IN  fixed \o custom

\* asset_items: sequence of [key |-> category, subs |-> sequence of [key, items]];
\* item.get("count", 1), item.get("resolution", default_resolution)
_parse_generation_tasks_from_references(items_tree, default_resolution) ==
    Concat([c \in DOMAIN items_tree |->
        Concat([e \in DOMAIN items_tree[c].subs |->
            Concat([k \in DOMAIN items_tree[c].subs[e].items |->
                [index \in 1..items_tree[c].subs[e].items[k].count |->
                    [category |-> items_tree[c].key,
                     subcategory |-> items_tree[c].subs[e].key,
                     filename |-> items_tree[c].subs[e].items[k].filename,
                     description |-> items_tree[c].subs[e].items[k].description,
                     index |-> index,
                     resolution |-> ResolutionOr(items_tree[c].subs[e].items[k],
                                                 default_resolution),
                     from_reference |-> TRUE]]])])])

-----------------------------------------------------------------------------
(* Task decomposition: BaseImageService (dict-format items only) *)

Base_parse_category_tasks(category_name, category_data, default_resolution) ==
    Concat([e \in DOMAIN category_data |->
        Concat([k \in DOMAIN category_data[e].items |->
            IF category_data[e].items[k].isdict
            THEN [index \in 1..category_data[e].items[k].count |->
                    [category |-> category_name,
                     subcategory |-> category_data[e].key,
                     filename |-> category_data[e].items[k].filename,
                     description |-> category_data[e].items[k].description,
                     index |-> index,
                     resolution |-> ResolutionOr(category_data[e].items[k],
                                                 default_resolution),
                     format_version |-> "new"]]
            ELSE <<>>])])

Base_parse_custom_content_tasks(custom_content, default_resolution) ==
    Concat([e \in DOMAIN custom_content |->
        Concat([k \in DOMAIN custom_content[e].items |->
            IF custom_content[e].items[k].isdict
            THEN [index \in 1..custom_content[e].items[k].count |->
                    [category |-> "custom",
                     subcategory |-> custom_content[e].key,
                     filename |-> custom_content[e].items[k].filename,
                     description |-> custom_content[e].items[k].description,
                     index |-> index,
                     resolution |-> ResolutionOr(custom_content[e].items[k],
                                                 default_resolution),
                     format_version |-> "new"]]
            ELSE <<>>])])

\* SymbolsService/UIService/BackgroundsService._get_category_names return the
\* same lists as category_attrs
Base_parse_generation_tasks(p) ==
    LET cats == category_attrs[p.module]
        fixed == Concat([c \in DOMAIN cats |->
                    IF Truthy(p.content[cats[c]])
                    THEN Base_parse_category_tasks(cats[c], p.content[cats[c]].entries,
                                                   p.default_resolution)
                    ELSE <<>>])
        custom == IF Truthy(p.content["custom_content"])
                  THEN Base_parse_custom_content_tasks(
                           p.content["custom_content"].entries, p.default_resolution)
                  ELSE <<>>
    IN  fixed \o custom

-----------------------------------------------------------------------------
(* Reference archive ingestion: FileProcessingService (strings are handled *)
(* character by character, as the regular expressions do)                  *)

Char(s, i) == SubSeq(s, i, i)
IsDigit(c) == c \in {"0", "1", "2", "3", "4", "5", "6", "7", "8", "9"}

\* last index of the run of digits that starts at i (s[i] is a digit)
RECURSIVE DigitsEnd(_, _)
DigitsEnd(s, i) ==
    IF i < Len(s) /\ IsDigit(Char(s, i + 1)) THEN DigitsEnd(s, i + 1) ELSE i

\* \d+x\d+ matches at position i
ResolutionAt(s, i) ==
    /\ i <= Len(s)
    /\ IsDigit(Char(s, i))
    /\ LET e == DigitsEnd(s, i)
       IN  e + 2 <= Len(s) /\ Char(s, e + 1) = "x" /\ IsDigit(Char(s, e + 2))

\* re.search(r'(\d+x\d+)', filename): the leftmost match, greedy
_extract_resolution_from_filename(filename) ==
    IF \E i \in 1..Len(filename) : ResolutionAt(filename, i)
    THEN LET i == CHOOSE j \in 1..Len(filename) :
                    /\ ResolutionAt(filename, j)
                    /\ \A k \in 1..(j - 1) : ~ResolutionAt(filename, k)
             e == DigitsEnd(filename, i)
         IN  SubSeq(filename, i, DigitsEnd(filename, e + 2))
    ELSE NoneVal

\* re.sub(r'_\d+x\d+$', '', s)
StripResolutionSuffix(s) ==
    IF \E i \in 1..Len(s) :
          /\ Char(s, i) = "_"
          /\ ResolutionAt(s, i + 1)
          /\ DigitsEnd(s, DigitsEnd(s, i + 1) + 2) = Len(s)
    THEN LET i == CHOOSE j \in 1..Len(s) :
                    /\ Char(s, j) = "_"
                    /\ ResolutionAt(s, j + 1)
                    /\ DigitsEnd(s, DigitsEnd(s, j + 1) + 2) = Len(s)
         IN  SubSeq(s, 1, i - 1)
    ELSE s

\* re.sub(r'_\d+$', '', s)
StripNumberSuffix(s) ==
    IF \E i \in 1..Len(s) :
          /\ Char(s, i) = "_"
          /\ i < Len(s)
          /\ IsDigit(Char(s, i + 1))
          /\ DigitsEnd(s, i + 1) = Len(s)
    THEN LET i == CHOOSE j \in 1..Len(s) :
                    /\ Char(s, j) = "_"
                    /\ j < Len(s)
                    /\ IsDigit(Char(s, j + 1))
                    /\ DigitsEnd(s, j + 1) = Len(s)
         IN  SubSeq(s, 1, i - 1)
    ELSE s


\* s.replace('_', ' ').replace('-', ' ').split(): the words, from position i on
RECURSIVE SplitWords(_, _, _)
SplitWords(s, i, word) ==
    IF i > Len(s) THEN (IF word = "" THEN <<>> ELSE <<word>>)
    ELSE IF Char(s, i) \in {"_", "-", " "}
         THEN (IF word = "" THEN <<>> ELSE <<word>>) \o SplitWords(s, i + 1, "")
         ELSE SplitWords(s, i + 1, word \o Char(s, i))

\* str.upper() and str.lower() on one character
UpperOf ==
    [a |-> "A", b |-> "B", c |-> "C", d |-> "D", e |-> "E", f |-> "F",
     g |-> "G", h |-> "H", i |-> "I", j |-> "J", k |-> "K", l |-> "L",
     m |-> "M", n |-> "N", o |-> "O", p |-> "P", q |-> "Q", r |-> "R",
     s |-> "S", t |-> "T", u |-> "U", v |-> "V", w |-> "W", x |-> "X",
     y |-> "Y", z |-> "Z"]

LowerOf ==
    [A |-> "a", B |-> "b", C |-> "c", D |-> "d", E |-> "e", F |-> "f",
     G |-> "g", H |-> "h", I |-> "i", J |-> "j", K |-> "k", L |-> "l",
     M |-> "m", N |-> "n", O |-> "o", P |-> "p", Q |-> "q", R |-> "r",
     S |-> "s", T |-> "t", U |-> "u", V |-> "v", W |-> "w", X |-> "x",
     Y |-> "y", Z |-> "z"]

ToUpper(c) == IF c \in DOMAIN UpperOf THEN UpperOf[c] ELSE c

ToLower(c) == IF c \in DOMAIN LowerOf THEN LowerOf[c] ELSE c

RECURSIVE LowerFrom(_, _)
LowerFrom(s, i) ==
    IF i > Len(s) THEN "" ELSE ToLower(Char(s, i)) \o LowerFrom(s, i + 1)

\* str.capitalize()
Capitalize(word) ==
    IF word = "" THEN "" ELSE ToUpper(Char(word, 1)) \o LowerFrom(word, 2)

RECURSIVE JoinWith(_, _)
JoinWith(words, sep) ==
    IF words = <<>> THEN ""
    ELSE IF Len(words) = 1 THEN words[1]
         ELSE words[1] \o sep \o JoinWith(Tail(words), sep)

_extract_description_from_filename(filename) ==
    LET clean == StripNumberSuffix(StripResolutionSuffix(filename))
        words == SplitWords(clean, 1, "")
        description == JoinWith([k \in DOMAIN words |-> Capitalize(words[k])], " ")
    IN  IF description # "" THEN description ELSE filename

supported_image_formats == {".jpg", ".jpeg", ".png", ".webp", ".bmp"}

\* a leaf of the archive: path category/subcategory/stem.ext
_is_image_file_by_extension(leaf) == leaf.ext \in supported_image_formats

\* depth: number of path segments; a path of fewer than 3 segments is skipped
Leaves ==
    {[category |-> d[1], subcategory |-> d[2], stem |-> st, ext |-> x, depth |-> 3] :
        d \in {<<"base_symbols", "s1">>, <<"base_symbols", "s2">>, <<"extras", "s1">>},
        st \in {"a", "a_512x512"}, x \in {".png", ".txt"}}
    \cup {[category |-> "extras", subcategory |-> "", stem |-> "a",
           ext |-> ".png", depth |-> 2]}

LeafPath(leaf) ==
    IF leaf.depth >= 3
    THEN leaf.category \o "/" \o leaf.subcategory \o "/" \o leaf.stem \o leaf.ext
    ELSE leaf.category \o "/" \o leaf.stem \o leaf.ext

RECURSIVE NatToStr(_)
NatToStr(n) ==
    IF n < 10 THEN Char("0123456789", n + 1)
    ELSE NatToStr(n \div 10) \o Char("0123456789", (n % 10) + 1)

\* what the storage collaborator does on one leaf upload
UploadOutcomes == {"ok", "upload_fails", "presign_fails"}

file_processing_s3_prefix == "image_processing_temp"

\* the s3 key of _upload_image_to_s3_and_get_url: prefix/category/subcategory/uid_filename
LeafKey(leaf, uid) ==
    file_processing_s3_prefix \o "/" \o leaf.category \o "/" \o leaf.subcategory
        \o "/" \o NatToStr(uid) \o "_" \o leaf.stem \o leaf.ext

PresignedUrl(key) == "https://signed/" \o key

\* asset_structure[category][subcategory].append(file_info), creating the dicts
AppendFileInfo(structure, category, subcategory, file_info) ==
    LET withCat == IF HasKey(structure, category) THEN structure
                   ELSE Append(structure, [key |-> category, subs |-> <<>>])
        c == KeyIndex(withCat, category)
        subs == IF HasKey(withCat[c].subs, subcategory) THEN withCat[c].subs
                ELSE Append(withCat[c].subs, [key |-> subcategory, items |-> <<>>])
        e == KeyIndex(subs, subcategory)
    IN  [withCat EXCEPT ![c].subs =
            [subs EXCEPT ![e].items = Append(subs[e].items, file_info)]]

\* image_urls[key] = url (a dict assignment: a later value replaces an earlier one)
DictSet(d, k, v) ==
    IF HasKey(d, k) THEN [d EXCEPT ![KeyIndex(d, k)].value = v]
    ELSE Append(d, [key |-> k, value |-> v])

\* what the loop of _parse_zip_structure_with_s3_upload derives from a path
LeafInfo(leaf) ==
    [filename |-> leaf.stem,
     full_filename |-> leaf.stem \o leaf.ext,
     description |-> _extract_description_from_filename(leaf.stem),
     path |-> LeafPath(leaf),
     resolution |-> _extract_resolution_from_filename(leaf.stem),
     is_image |-> _is_image_file_by_extension(leaf),
     mapping_key |-> leaf.category \o "." \o leaf.subcategory \o "." \o leaf.stem]

\* the loop body of _parse_zip_structure_with_s3_upload over file_list[i..],
\* infos[i] = LeafInfo(file_list[i]), outcomes[i] being what storage does for
\* leaf i; acc carries the three results, the objects created in storage and
\* the uuid source
RECURSIVE ZipLoop(_, _, _, _, _)
ZipLoop(file_list, infos, outcomes, i, acc) ==
    IF i > Len(file_list) THEN acc
    ELSE LET leaf == file_list[i]
             info == infos[i]
             key == LeafKey(leaf, acc.uuid_next)
             uploaded == info.is_image /\ outcomes[i] \in {"ok", "presign_fails"}
             presigned_url == IF info.is_image /\ outcomes[i] = "ok"
                              THEN PresignedUrl(key) ELSE NoneVal
             file_info == [filename |-> info.filename,
                           full_filename |-> info.full_filename,
                           description |-> info.description,
                           path |-> info.path,
                           resolution |-> info.resolution,
                           is_image |-> info.is_image,
                           count |-> 1,
                           presigned_url |-> presigned_url]
         IN  IF leaf.depth < 3 THEN ZipLoop(file_list, infos, outcomes, i + 1, acc)
             ELSE ZipLoop(file_list, infos, outcomes, i + 1,
                    [asset_structure |->
                        AppendFileInfo(acc.asset_structure, leaf.category,
                                       leaf.subcategory, file_info),
                     file_mappings |->
                        DictSet(acc.file_mappings, info.mapping_key, info.path),
                     image_urls |->
                        IF presigned_url # NoneVal
                        THEN DictSet(acc.image_urls, info.mapping_key, presigned_url)
                        ELSE acc.image_urls,
                     created |-> IF uploaded THEN acc.created \cup {key}
                                 ELSE acc.created,
                     uuid_next |-> IF info.is_image THEN acc.uuid_next + 1
                                   ELSE acc.uuid_next])

_parse_zip_structure_with_s3_upload(file_list, infos, outcomes, uuid0) ==
    ZipLoop(file_list, infos, outcomes, 1,
            [asset_structure |-> <<>>, file_mappings |-> <<>>, image_urls |-> <<>>,
             created |-> {}, uuid_next |-> uuid0])

\* file_info -> {filename, description, count, resolution}, None values removed
\* (a removed resolution is read back as None by item.get)
_convert_to_asset_items(asset_structure) ==
    [c \in DOMAIN asset_structure |->
        [key |-> asset_structure[c].key,
         subs |-> [e \in DOMAIN asset_structure[c].subs |->
            [key |-> asset_structure[c].subs[e].key,
             items |-> [k \in DOMAIN asset_structure[c].subs[e].items |->
                [filename |-> asset_structure[c].subs[e].items[k].filename,
                 description |-> asset_structure[c].subs[e].items[k].description,
                 count |-> asset_structure[c].subs[e].items[k].count,
                 resolution |-> asset_structure[c].subs[e].items[k].resolution]]]]]]

\* what storage may do for each leaf of the archive: only an image of the
\* 3-level layout is uploaded
StorageOutcomes(file_list, infos) ==
    {outcomes \in [DOMAIN file_list -> UploadOutcomes] :
        \A i \in DOMAIN file_list :
            ~infos[i].is_image \/ file_list[i].depth < 3 => outcomes[i] = "ok"}

EmptyAssetResult ==
    [processing_success |-> FALSE, error |-> NoneVal,
     asset_structure |-> <<>>, asset_items |-> <<>>,
     reference_prompts |-> <<>>, file_mappings |-> <<>>, image_urls |-> <<>>]

\* _build_reference_prompt_v2: the sentence made for one file of the archive
_build_reference_prompt_v2(module, category, subcategory, file_info) ==
    JoinWith(
        <<(CASE module = "symbols" -> "Create a slot machine symbol for "
             [] module = "ui" -> "Create a user interface element for "
             [] module = "backgrounds" -> "Create a background scene for "
             [] OTHER -> "Create a " \o module \o " asset for ")
            \o file_info.description,
          "in " \o category \o " category",
          subcategory \o " subcategory">>
        \o (IF file_info.resolution # NoneVal
            THEN <<"with " \o file_info.resolution \o " resolution">> ELSE <<>>)
        \o (IF file_info.is_image /\ file_info.presigned_url # NoneVal
            THEN <<"matching the style and composition of the reference image">>
            ELSE <<"based on the reference file " \o file_info.full_filename>>)
        \o <<"Maintain consistent visual style with other assets",
             "Keep the same artistic approach and quality level">>,
        ", ")

\* the files of an asset_structure in the order of its three nested loops
StructureFiles(asset_structure) ==
    Concat([c \in DOMAIN asset_structure |->
        Concat([e \in DOMAIN asset_structure[c].subs |->
            [k \in DOMAIN asset_structure[c].subs[e].items |->
                [category |-> asset_structure[c].key,
                 subcategory |-> asset_structure[c].subs[e].key,
                 file_info |-> asset_structure[c].subs[e].items[k]]]])])

\* d[k] = v only when k is not a key of d yet
DictSetDefault(d, k, v) == IF HasKey(d, k) THEN d ELSE Append(d, [key |-> k, value |-> v])

\* _generate_reference_prompts_v2: the exact key of every file, and the
\* subcategory and category keys for the first file that reaches them
RECURSIVE ReferencePromptsLoop(_, _, _, _)
ReferencePromptsLoop(files, module, i, reference_prompts) ==
    IF i > Len(files) THEN reference_prompts
    ELSE LET f == files[i]
             prompt == _build_reference_prompt_v2(module, f.category, f.subcategory,
                                                  f.file_info)
             subcategory_key == f.category \o "." \o f.subcategory
         IN  ReferencePromptsLoop(files, module, i + 1,
                DictSetDefault(
                    DictSetDefault(
                        DictSet(reference_prompts,
                                subcategory_key \o "." \o f.file_info.filename, prompt),
                        subcategory_key, prompt),
                    f.category, prompt))

_generate_reference_prompts_v2(asset_structure, module) ==
    ReferencePromptsLoop(StructureFiles(asset_structure), module, 1, <<>>)

\* modules.<module>.categories of image_structure.yaml: the categories a
\* module expects and their subcategories; a module without an entry expects
\* none
expected_categories(module) ==
    IF module = "symbols"
    THEN <<[key |-> "base_symbols", subcategories |-> <<"s1", "high_value">>],
           [key |-> "special_symbols", subcategories |-> <<"wild", "scatter">>]>>
    ELSE <<>>

\* _validate_asset_structure: the coverage report (nothing is ever put in
\* errors, so is_valid stays True)
_validate_asset_structure(asset_structure, module) ==
    LET expected == expected_categories(module)
        Keys(d) == [i \in DOMAIN d |-> d[i].key]
        Coverage(entry) ==
            LET expected_subcategories ==
                    expected[KeyIndex(expected, entry.key)].subcategories
                covered == Cardinality(Range(Keys(entry.subs))
                                       \cap Range(expected_subcategories))
            IN  [key |-> entry.key,
                 expected |-> expected_subcategories,
                 actual |-> Keys(entry.subs),
                 coverage_percentage |->
                    IF expected_subcategories = <<>> THEN 0
                    ELSE (covered * 100) \div Len(expected_subcategories),
                 asset_items_count |->
                    Len(Concat([e \in DOMAIN entry.subs |-> entry.subs[e].items])),
                 image_items_count |->
                    Len(SelectSeq(Concat([e \in DOMAIN entry.subs |->
                                            entry.subs[e].items]),
                                  LAMBDA f : f.is_image))]
        known == SelectSeq(asset_structure, LAMBDA entry : HasKey(expected, entry.key))
    IN  [is_valid |-> TRUE,
         errors |-> <<>>,
         missing_categories |->
            SelectSeq(Keys(expected), LAMBDA c : ~HasKey(asset_structure, c)),
         unexpected_categories |->
            SelectSeq(Keys(asset_structure), LAMBDA c : ~HasKey(expected, c)),
         coverage |-> [i \in DOMAIN known |-> Coverage(known[i])]]

\* the result of process_asset_references, r being what the zip loop produced
\* (a variant in which an incomplete coverage makes the ingestion fail comes
\* first, for comparison)
process_asset_references_StrictCoverage(r, module) ==
    IF _validate_asset_structure(r.asset_structure, module).missing_categories # <<>>
       \/ _validate_asset_structure(r.asset_structure, module).unexpected_categories # <<>>
    THEN EmptyAssetResult
    ELSE [processing_success |-> TRUE,
          asset_structure |-> r.asset_structure,
          reference_prompts |-> _generate_reference_prompts_v2(r.asset_structure, module),
          asset_items |-> _convert_to_asset_items(r.asset_structure),
          file_mappings |-> r.file_mappings,
          image_urls |-> r.image_urls,
          processing_info |->
             [total_files |-> Len(StructureFiles(r.asset_structure)),
              image_files |-> Len(r.image_urls),
              validation |-> _validate_asset_structure(r.asset_structure, module)]]

process_asset_references(r, module) ==
    [processing_success |-> TRUE,
     asset_structure |-> r.asset_structure,
     reference_prompts |-> _generate_reference_prompts_v2(r.asset_structure, module),
     asset_items |-> _convert_to_asset_items(r.asset_structure),
     file_mappings |-> r.file_mappings,
     image_urls |-> r.image_urls,
     processing_info |->
        [total_files |-> Len(StructureFiles(r.asset_structure)),
         image_files |-> Len(r.image_urls),
         validation |-> _validate_asset_structure(r.asset_structure, module)]]

\* needle in hay, of two strings
Contains(hay, needle) ==
    \E i \in 1..(Len(hay) - Len(needle) + 1) :
        SubSeq(hay, i, i + Len(needle) - 1) = needle

\* the lookup paths of a task, the finest first
lookup_paths(task_info) ==
    <<task_info.category \o "." \o task_info.subcategory \o "." \o task_info.filename,
      task_info.category \o "." \o task_info.subcategory,
      task_info.category>>

\* get_reference_image_urls_for_task: the url of every lookup path the map
\* holds; when it holds none, the url of every key that contains the category
\* and the subcategory, or the filename
get_reference_image_urls_for_task(task_info, image_urls) ==
    LET paths == lookup_paths(task_info)
        found_urls == [i \in DOMAIN SelectSeq(paths, LAMBDA p : HasKey(image_urls, p)) |->
                          image_urls[KeyIndex(image_urls,
                              SelectSeq(paths, LAMBDA p : HasKey(image_urls, p))[i])].value]
        Fuzzy(entry) == \/ /\ Contains(entry.key, task_info.category)
                           /\ Contains(entry.key, task_info.subcategory)
                        \/ Contains(entry.key, task_info.filename)
        fuzzy == SelectSeq(image_urls, Fuzzy)
    IN  IF found_urls # <<>> THEN found_urls
        ELSE [i \in DOMAIN fuzzy |-> fuzzy[i].value]

\* get_reference_prompt_for_task: the prompt of the first lookup path the map
\* holds, None when it holds none
get_reference_prompt_for_task(task_info, reference_prompts) ==
    LET held == SelectSeq(lookup_paths(task_info),
                          LAMBDA p : HasKey(reference_prompts, p))
    IN  IF held = <<>> THEN NoneVal
        ELSE reference_prompts[KeyIndex(reference_prompts, held[1])].value

\* no prompt composed
IdleComposer ==
    [tasks |-> <<>>, art_style_data |-> NoneVal, reference_data |-> <<>>,
     given |-> <<>>, prompts |-> <<>>]

\* no lookup asked
IdleLookup == [pc |-> "idle", task_info |-> NoneVal, map |-> <<>>,
               urls |-> <<>>, prompt |-> NoneVal]

-----------------------------------------------------------------------------
(* Request bodies under construction                                       *)

EmptyParams(module) ==
    [module |-> module,
     content |-> [b \in BucketNames(module) |-> EmptyBucket],
     default_resolution |-> default_resolution_of(module)]

\* number of declarations of a request: items, empty lists and empty dicts
RECURSIVE SumSeq(_)
SumSeq(ns) == IF ns = <<>> THEN 0 ELSE Head(ns) + SumSeq(Tail(ns))

BucketSize(bucket) ==
    IF ~bucket.set THEN 0
    ELSE IF bucket.entries = <<>> THEN 1
    ELSE SumSeq([e \in DOMAIN bucket.entries |->
            IF bucket.entries[e].items = <<>> THEN 1
            ELSE Len(bucket.entries[e].items)])

BucketOrder(p) == category_attrs[p.module] \o <<"custom_content">>

RequestSize(p) ==
    SumSeq([i \in DOMAIN BucketOrder(p) |-> BucketSize(p.content[BucketOrder(p)[i]])])

\* the bucket with subcategory key s present
WithKey(bucket, s) ==
    [set |-> TRUE,
     entries |-> IF HasKey(bucket.entries, s) THEN bucket.entries
                 ELSE Append(bucket.entries, [key |-> s, items |-> <<>>])]

WithItem(bucket, s, item) ==
    LET wk == WithKey(bucket, s)
        e == KeyIndex(wk.entries, s)
    IN  [wk EXCEPT !.entries[e].items = Append(wk.entries[e].items, item)]

AllItems(p) ==
    UNION {UNION {Range(p.content[b].entries[e].items) :
                    e \in DOMAIN p.content[b].entries} : b \in DOMAIN p.content}

-----------------------------------------------------------------------------
(* Art style resolution: ArtStyleService                                    *)

Missing == "<missing>"       \* a key the dict does not hold

RECURSIVE LStrip(_)
LStrip(s) ==
    IF Len(s) > 0 /\ Char(s, 1) = " " THEN LStrip(SubSeq(s, 2, Len(s))) ELSE s

RECURSIVE RStrip(_)
RStrip(s) ==
    IF Len(s) > 0 /\ Char(s, Len(s)) = " " THEN RStrip(SubSeq(s, 1, Len(s) - 1)) ELSE s

\* str.strip()
Strip(s) == RStrip(LStrip(s))

art_style_s3_prefix == "art-style"

\* two entries of the preset catalogue
preset_themes ==
    [fantasy_medieval |->
        [base_prompt |-> "fantasy art, medieval style, detailed illustration",
         color_palette |-> "rich gold, deep red, royal blue, ancient bronze",
         effects |-> "glowing magical effect, mystical aura",
         materials |-> "aged parchment, worn metal, mystical gems",
         lighting |-> "warm torchlight, mysterious shadows",
         description |-> "Medieval fantasy style with rich colors and magical elements"],
     cyberpunk_neon |->
        [base_prompt |-> "cyberpunk style, neon aesthetic, futuristic design",
         color_palette |-> "electric blue, hot pink, acid green, chrome silver",
         effects |-> "neon glow, holographic shimmer, digital distortion",
         materials |-> "sleek metal, glass panels, LED strips",
         lighting |-> "harsh neon lighting, dramatic shadows",
         description |-> "Futuristic cyberpunk with neon colors and high-tech aesthetics"]]

\* the three clauses every resolver of the service appends
style_suffix ==
    <<"isolated on transparent background",
      "centered design, game asset style",
      "high quality, professional design">>

quality_tags == "high quality, game asset style, professional design"

\* [part for part in style_parts if part and part.strip()]
RECURSIVE NonBlank(_)
NonBlank(parts) ==
    IF parts = <<>> THEN <<>>
    ELSE (IF Head(parts) \in {NoneVal, Missing} \/ Strip(Head(parts)) = ""
          THEN <<>> ELSE <<Head(parts)>>) \o NonBlank(Tail(parts))

\* ", ".join of the non-blank parts: the first clause, four components, the suffix
StylePrompt(first, components) ==
    JoinWith(NonBlank(<<first, components.color_palette, components.effects,
                        components.materials, components.lighting>> \o style_suffix),
             ", ")

\* the style descriptor: the keys of the returned dict that the generation
\* pipeline reads
Descriptor(style_prompt, mode, components) ==
    [style_prompt |-> style_prompt, mode |-> mode, components |-> components,
     quality_tags |-> quality_tags]

NoComponents ==
    [base_prompt |-> Missing, color_palette |-> Missing, effects |-> Missing,
     materials |-> Missing, lighting |-> Missing, description |-> Missing]

NoStyle ==
    [style_prompt |-> NoneVal, mode |-> NoneVal, components |-> NoComponents,
     quality_tags |-> NoneVal]

\* how a call ends: a returned value, or an exception and what raised it
Return(value) == [raised |-> FALSE, cause |-> NoneVal, value |-> value]
Raise(cause, value) == [raised |-> TRUE, cause |-> cause, value |-> value]

\* a variant that falls back to the first theme for an unknown name, for
\* comparison
generate_preset_style_DefaultTheme(preset_theme) ==
    LET theme_config == IF preset_theme \in DOMAIN preset_themes
                        THEN preset_themes[preset_theme]
                        ELSE preset_themes["fantasy_medieval"]
    IN  Return(Descriptor(StylePrompt(theme_config.base_prompt, theme_config),
                          "preset", theme_config))

generate_preset_style(preset_theme) ==
    IF preset_theme \notin DOMAIN preset_themes THEN Raise("validation", NoStyle)
    ELSE LET theme_config == preset_themes[preset_theme]
         IN  Return(Descriptor(StylePrompt(theme_config.base_prompt, theme_config),
                               "preset", theme_config))

\* style_components: a validated ArtStyleComponents (base_prompt stripped, not empty)
generate_custom_direct_style(style_components) ==
    Return(Descriptor(StylePrompt(style_components.base_prompt, style_components),
                      "custom_direct",
                      [style_components EXCEPT !.description = Missing]))

\* what the inference provider answers to a style request: an exception, text
\* that is not JSON, or a JSON object (a field holds a string, None, or is
\* Missing)
ResponseComponents(base_prompt, color_palette) ==
    [base_prompt |-> base_prompt, color_palette |-> color_palette,
     effects |-> "soft glow", materials |-> "brushed metal",
     lighting |-> "warm light", description |-> "painted look"]

\* no answer received
NoResponse ==
    [kind |-> "none", has_components |-> FALSE, components |-> NoComponents,
     style_description |-> Missing, enhanced_prompt |-> Missing]

AIResponses ==
    {[kind |-> k, has_components |-> FALSE, components |-> NoComponents,
      style_description |-> Missing, enhanced_prompt |-> Missing] :
        k \in {"raises", "bad_json", "json"}}
    \cup
    {[kind |-> "json", has_components |-> TRUE,
      components |-> ResponseComponents(bp, cp),
      style_description |-> x[1], enhanced_prompt |-> x[2]] :
        bp \in {"oil painting", "", " ", NoneVal, Missing},
        cp \in {"gold", NoneVal},
        x \in {<<"painterly, gold", "oil painting, gold">>, <<Missing, Missing>>}}

required_fields ==
    {"base_prompt", "color_palette", "effects", "materials", "lighting", "description"}

NoneToEmpty(v) == IF v = NoneVal THEN "" ELSE v

\* the one inference call of the AI-enhanced mode and the checks on its answer
_generate_enhanced_style_with_components(custom_prompt, response) ==
    IF response.kind = "raises" THEN Raise("provider", NoComponents)
    ELSE IF response.kind = "bad_json" THEN Raise("response", NoComponents)
    ELSE IF ~response.has_components THEN Raise("response", NoComponents)
    ELSE IF \E f \in required_fields : response.components[f] = Missing
         THEN Raise("response", NoComponents)
    ELSE LET c == response.components
         IN  Return([components |->
                        [f \in required_fields |->
                            IF f = "base_prompt"
                            THEN (IF c[f] \in {NoneVal, ""} \/ Strip(c[f]) = ""
                                  THEN custom_prompt ELSE c[f])
                            ELSE NoneToEmpty(c[f])],
                     enhanced_prompt |->
                        IF response.enhanced_prompt = Missing THEN custom_prompt
                        ELSE response.enhanced_prompt])

generate_custom_ai_enhanced_style(custom_prompt, model_ok, response) ==
    IF ~model_ok THEN Raise("validation", NoStyle)
    ELSE LET ai_result == _generate_enhanced_style_with_components(
                              Strip(custom_prompt), response)
         IN  IF ai_result.raised THEN Raise(ai_result.cause, NoStyle)
             ELSE LET enhanced_components == ai_result.value.components
                  IN  Return(Descriptor(
                          StylePrompt(enhanced_components.base_prompt,
                                      enhanced_components),
                          "custom_ai_enhanced", enhanced_components))

\* the one inference call of the reference-image mode and the checks on its answer
_analyze_images_and_generate_components(image_urls, response) ==
    IF response.kind = "raises" THEN Raise("provider", NoComponents)
    ELSE IF response.kind = "bad_json" THEN Raise("response", NoComponents)
    ELSE IF ~response.has_components \/ response.style_description = Missing
         THEN Raise("response", NoComponents)
    ELSE IF \E f \in required_fields : response.components[f] = Missing
         THEN Raise("response", NoComponents)
    ELSE Return([style_description |-> response.style_description,
                 components |-> [f \in required_fields |->
                                    NoneToEmpty(response.components[f])]])

-----------------------------------------------------------------------------
(* The reference-image resolver, step by step: it awaits storage and the    *)
(* inference provider, and ends in a finally block                          *)

\* an uploaded reference image: its file name is stem.ext, or stem alone;
\* acceptable: the content type is an image type and the size is within 10 MB
ReferenceImages ==
    {[stem |-> "ref", ext |-> "png", acceptable |-> TRUE],
     [stem |-> "sketch", ext |-> "", acceptable |-> TRUE],
     [stem |-> "notes", ext |-> "txt", acceptable |-> FALSE]}

RECURSIVE SeqsUpTo(_, _)
SeqsUpTo(S, n) ==
    IF n = 0 THEN {<<>>}
    ELSE SeqsUpTo(S, n - 1) \cup
         {Append(q, x) : q \in {r \in SeqsUpTo(S, n - 1) : Len(r) = n - 1}, x \in S}

\* validated ArtStyleComponents a caller passes to the direct mode
DirectComponents ==
    {[base_prompt |-> "ink wash", color_palette |-> cp, effects |-> NoneVal,
      materials |-> "", lighting |-> "moonlight", description |-> NoneVal] :
        cp \in {"black and white", NoneVal}}


IdleStyle ==
    [pc |-> "idle", mode |-> NoneVal, preset_theme |-> NoneVal,
     style_components |-> NoComponents, custom_prompt |-> NoneVal,
     model_ok |-> TRUE, reference_images |-> <<>>, max_images |-> 0,
     upload_results |-> <<>>, staged |-> {}, cleaned |-> 0,
     delete_failed |-> FALSE, inference_calls |-> 0,
     pending |-> Return(NoStyle), cause |-> NoneVal, result |-> NoStyle,
     response |-> NoResponse]

\* the resolver has been called with these arguments
PresetCall(preset_theme) ==
    [IdleStyle EXCEPT !.pc = "start", !.mode = "preset", !.preset_theme = preset_theme]

CustomDirectCall(style_components) ==
    [IdleStyle EXCEPT !.pc = "start", !.mode = "custom_direct",
                      !.style_components = style_components]

CustomAIEnhancedCall(custom_prompt, model_ok) ==
    [IdleStyle EXCEPT !.pc = "start", !.mode = "custom_ai_enhanced",
                      !.custom_prompt = custom_prompt, !.model_ok = model_ok]

ReferenceImageCall(reference_images, model_ok, max_images) ==
    [IdleStyle EXCEPT !.pc = "start", !.mode = "reference_image",
                      !.reference_images = reference_images,
                      !.model_ok = model_ok, !.max_images = max_images]

\* the call ends: it returns its descriptor or raises
Finish(st, outcome) ==
    [st EXCEPT !.pc = IF outcome.raised THEN "raised" ELSE "returned",
               !.cause = outcome.cause,
               !.result = outcome.value]

GeneratePresetStyle ==
    /\ style.pc = "start" /\ style.mode = "preset"
    /\ style' = Finish(style, generate_preset_style(style.preset_theme))

GenerateCustomDirectStyle ==
    /\ style.pc = "start" /\ style.mode = "custom_direct"
    /\ style' = Finish(style, generate_custom_direct_style(style.style_components))

GenerateCustomAIEnhancedStyle ==
    /\ style.pc = "start" /\ style.mode = "custom_ai_enhanced"
    /\ \E response \in AIResponses :
          style' = [Finish(style, generate_custom_ai_enhanced_style(
                                      style.custom_prompt, style.model_ok, response))
                    EXCEPT !.inference_calls = IF style.model_ok THEN @ + 1 ELSE @,
                           !.response = IF style.model_ok THEN response ELSE @]

\* generate_reference_image_style up to its first upload: the model check,
\* the empty list check, and the cut to max_images
ValidateReferenceImages_NoEmptyCheck ==
    /\ style.pc = "start" /\ style.mode = "reference_image"
    /\ style' =
          IF ~style.model_ok
          THEN [style EXCEPT !.pc = "cleanup",
                             !.pending = Raise("validation", NoStyle)]
          ELSE [style EXCEPT !.pc = IF style.reference_images = <<>>
                                    THEN "analyze" ELSE "staging",
                             !.reference_images =
                                IF Len(@) > style.max_images
                                THEN SubSeq(@, 1, style.max_images) ELSE @]

ValidateReferenceImages ==
    /\ style.pc = "start" /\ style.mode = "reference_image"
    /\ style' =
          IF ~style.model_ok \/ style.reference_images = <<>>
          THEN [style EXCEPT !.pc = "cleanup",
                             !.pending = Raise("validation", NoStyle)]
          ELSE [style EXCEPT !.pc = "staging",
                             !.reference_images =
                                IF Len(@) > style.max_images
                                THEN SubSeq(@, 1, style.max_images) ELSE @]

date_folder == "2025-01-01"

\* file_name of _upload_temp_image: the suffix goes before the extension
TempKey(image, i, uid) ==
    LET suffix == "_img_" \o NatToStr(i)
        file_name == IF image.ext # "" THEN image.stem \o suffix \o "." \o image.ext
                     ELSE image.stem \o suffix
    IN  art_style_s3_prefix \o "/temp/" \o date_folder \o "/" \o NatToStr(uid)
            \o "/" \o file_name

\* _upload_temp_image for the next image of the loop (enumerate counts from 0):
\* the upload, then the signed URL; either may fail, and the call then leaves
\* the loop for the finally block
UploadTempImage(outcome) ==
    /\ style.pc = "staging"
    /\ LET i == Len(style.upload_results) + 1
           key == TempKey(style.reference_images[i], i - 1, uuid_next)
       IN  /\ uuid_next' = uuid_next + 1
           /\ storage' = IF outcome = "upload_fails" THEN storage
                         ELSE storage \cup {key}
           /\ style' =
                IF outcome = "ok"
                THEN [style EXCEPT
                        !.upload_results =
                            Append(@, [s3_key |-> key,
                                       presigned_url |-> PresignedUrl(key)]),
                        !.staged = @ \cup {key},
                        !.pc = IF i = Len(style.reference_images)
                               THEN "analyze" ELSE "staging"]
                ELSE [style EXCEPT
                        !.staged = IF outcome = "presign_fails"
                                   THEN @ \cup {key} ELSE @,
                        !.pc = "cleanup",
                        !.pending = Raise("storage", NoStyle)]

\* the inference call on the signed URLs and the construction of the descriptor
AnalyzeImages ==
    /\ style.pc = "analyze"
    /\ \E response \in AIResponses :
        LET presigned_urls == [k \in DOMAIN style.upload_results |->
                                  style.upload_results[k].presigned_url]
            analysis_result ==
                _analyze_images_and_generate_components(presigned_urls, response)
        IN  style' =
              [style EXCEPT
                 !.pc = "cleanup",
                 !.inference_calls = @ + 1,
                 !.pending =
                    IF analysis_result.raised
                    THEN Raise(analysis_result.cause, NoStyle)
                    ELSE Return(Descriptor(
                            StylePrompt(analysis_result.value.style_description,
                                        analysis_result.value.components),
                            "reference_image", analysis_result.value.components))]

\* finally: _cleanup_temp_image for the next entry of upload_results; a failed
\* delete is logged and the loop goes on (storage refuses at most
\* MaxDeleteFailures deletes of one resolution)
CleanupTempImage(deleted) ==
    /\ style.pc = "cleanup"
    /\ style.cleaned < Len(style.upload_results)
    /\ \/ deleted
       \/ Cardinality({k \in 1..style.cleaned :
                          style.upload_results[k].s3_key \in storage}) < MaxDeleteFailures
    /\ LET key == style.upload_results[style.cleaned + 1].s3_key
       IN  /\ storage' = IF deleted THEN storage \ {key} ELSE storage
           /\ style' = [style EXCEPT !.cleaned = @ + 1,
                                     !.delete_failed = @ \/ ~deleted]
    /\ UNCHANGED uuid_next

\* the finally block is over: the value is returned, or the exception goes on
LeaveReferenceImageStyle ==
    /\ style.pc = "cleanup"
    /\ style.cleaned = Len(style.upload_results)
    /\ style' = Finish(style, style.pending)


-----------------------------------------------------------------------------
(* Generation jobs: ImageHandler                                            *)

\* ArtStyleConfig as the request body carries it (style_components is a dict)
ArtStyleConfig(mode, preset_theme, style_components, custom_prompt) ==
    [mode |-> mode, preset_theme |-> preset_theme,
     style_components |-> style_components, custom_prompt |-> custom_prompt,
     ai_model_ok |-> TRUE]

\* the body has no art_style
NoArtStyle == ArtStyleConfig(NoneVal, NoneVal, NoComponents, NoneVal)

ArtStyleConfigs ==
    {ArtStyleConfig("preset", theme, NoComponents, NoneVal) :
        theme \in {"fantasy_medieval", "unknown_theme", NoneVal}}
    \cup {ArtStyleConfig("custom_direct", NoneVal, sc, NoneVal) :
        sc \in {CHOOSE c \in DirectComponents : c.color_palette = NoneVal,
                NoComponents}}
    \cup {ArtStyleConfig("custom_ai_enhanced", NoneVal, NoComponents, cp) :
        cp \in {"neon city", " ", NoneVal}}
    \cup {[ArtStyleConfig("custom_ai_enhanced", NoneVal, NoComponents, "neon city")
            EXCEPT !.ai_model_ok = FALSE]}
    \cup {ArtStyleConfig("reference_image", NoneVal, NoComponents, NoneVal)}
    \cup {NoArtStyle}

\* ArtStyleConfig.validate_mode_requirements (and mode being one of the enum)
validate_mode_requirements(config) ==
    /\ config.mode \in {"preset", "custom_direct", "custom_ai_enhanced",
                      "reference_image"}
    /\ ~(config.mode = "preset" /\ config.preset_theme \in {NoneVal, ""})
    /\ ~(config.mode = "custom_direct" /\ config.style_components = NoComponents)
    /\ ~(config.mode = "custom_ai_enhanced" /\ config.custom_prompt \in {NoneVal, ""})

\* ImageAssetItem: count ge=1, le=10
count_ge == 1
count_le == 10
ValidAssetItem(item) == item.isdict /\ item.count >= count_ge /\ item.count <= count_le

\* validate_at_least_one_content: any([...]) over the content fields
validate_at_least_one_content(p) ==
    \E b \in DOMAIN p.content : Truthy(p.content[b])

\* param_class(**generation_params) accepts the body
ValidGenerationInput(p, art_style) ==
    /\ validate_mode_requirements(art_style)
    /\ \A item \in AllItems(p) : ValidAssetItem(item)
    /\ validate_at_least_one_content(p)

Item(filename, description, count) ==
    [filename |-> filename, description |-> description, count |-> count,
     resolution |-> NoneVal, isdict |-> TRUE]

WithItems(p, b, s, items) ==
    [p EXCEPT !.content[b] =
        [set |-> TRUE, entries |-> <<[key |-> s, items |-> items]>>]]

\* request bodies of the symbols module: one output; the three items of counts
\* 2, 1, 3 (6 outputs); an empty list (no output); no content field; an item
\* whose count is out of range
SingleContent ==
    WithItems(EmptyParams("symbols"), "base_symbols", "s1", <<Item("a", "d1", 1)>>)

ScenarioContent ==
    WithItems(EmptyParams("symbols"), "base_symbols", "s1",
              <<Item("a", "d1", 2), Item("b", "d2", 1), Item("c", "d3", 3)>>)

EmptyListContent == WithItems(EmptyParams("symbols"), "base_symbols", "s1", <<>>)

MalformedContent ==
    WithItems(EmptyParams("symbols"), "base_symbols", "s1", <<Item("a", "d1", 0)>>)

GenerationModes == {"prompt_only", "reference_assets"}

\* what _parse_request does with the request: the error it raises, or None
_parse_request(module, model_ok, generation_mode, p, art_style) ==
    IF module \notin Modules THEN "unsupported module"
    ELSE IF ~ValidGenerationInput(p, art_style) THEN "invalid generation_params"
    ELSE IF ~model_ok THEN "model not available"
    ELSE IF generation_mode \notin GenerationModes THEN "invalid generation_mode"
    ELSE NoneVal

\* the fallback of _generate_art_style
FallbackStyle ==
    [style_prompt |-> "high quality, detailed artwork",
     mode |-> "fallback",
     components |-> [NoComponents EXCEPT !.base_prompt = "high quality artwork",
                                         !.description = "fallback style"],
     quality_tags |-> "high quality, professional design"]

\* _generate_art_style up to the service call: the resolver call it makes, or
\* IdleStyle when the handler layer raises first (the fallback is then used)
ArtStyleCall(config) ==
    IF config.mode = "preset"
    THEN (IF config.preset_theme \in DOMAIN preset_themes
          THEN PresetCall(config.preset_theme) ELSE IdleStyle)
    ELSE IF config.mode = "custom_direct"
    THEN IdleStyle    \* style_components is a dict: .base_prompt raises AttributeError
    ELSE IF config.mode = "custom_ai_enhanced"
    THEN (IF Strip(config.custom_prompt) = "" THEN IdleStyle
          ELSE CustomAIEnhancedCall(Strip(config.custom_prompt), config.ai_model_ok))
    ELSE IdleStyle    \* ValueError: unsupported mode

\* handle_reference_image_style_generation up to the service call: the
\* error it raises, or None
ReferenceImagesError(reference_images, max_images) ==
    IF reference_images = <<>> THEN "no reference image"
    ELSE IF Len(reference_images) > max_images THEN "too many images"
    ELSE IF \E i \in DOMAIN reference_images : ~reference_images[i].acceptable
    THEN "image not acceptable"
    ELSE NoneVal

\* f"{index:02d}"
Pad2(n) == IF n < 10 THEN "0" \o NatToStr(n) ELSE NatToStr(n)

\* build_s3_output_path with the defaults of the code, then the file name
output_base == "image_assets_output/"
OutputKey(module, task_id, task_info) ==
    output_base \o date_folder \o "/" \o task_id \o "/" \o module \o "/"
        \o task_info.filename \o "_" \o Pad2(task_info.index) \o ".png"

\* the dict _save_image returns (a variant that numbers every result 1 comes
\* first, for comparison)
SavedImage_FirstIndex(module, task_id, task_info) ==
    [file_name |-> task_info.filename \o "_" \o Pad2(1) \o ".png",
     s3_key |-> OutputKey(module, task_id, [task_info EXCEPT !.index = 1]),
     category |-> task_info.category,
     subcategory |-> task_info.subcategory,
     filename |-> task_info.filename,
     description |-> task_info.description,
     index |-> 1,
     resolution |-> task_info.resolution]

SavedImage(module, task_id, task_info) ==
    [file_name |-> task_info.filename \o "_" \o Pad2(task_info.index) \o ".png",
     s3_key |-> OutputKey(module, task_id, task_info),
     category |-> task_info.category,
     subcategory |-> task_info.subcategory,
     filename |-> task_info.filename,
     description |-> task_info.description,
     index |-> task_info.index,
     resolution |-> task_info.resolution]

\* asyncio.gather(..., return_exceptions=True), then the loop that keeps the
\* results that are not exceptions, in task order (a variant that gives up at
\* the first exception comes first, for comparison)
successful_results_FailFast(results) ==
    IF \E i \in DOMAIN results : results[i].raised THEN <<>>
    ELSE [i \in DOMAIN results |-> results[i].value]

RECURSIVE successful_results(_)
successful_results(results) ==
    IF results = <<>> THEN <<>>
    ELSE (IF Head(results).raised THEN <<>> ELSE <<Head(results).value>>)
         \o successful_results(Tail(results))

\* the status expression of _build_result and _execute_parallel_modules
ModuleStatus(num_outputs, total_tasks) ==
    IF num_outputs = total_tasks THEN "completed"
    ELSE IF num_outputs > 0 THEN "partial_completed"
    ELSE "failed"

NoResult == [status |-> NoneVal, num_outputs |-> 0, total_tasks |-> 0]

\* _build_result: the total is the number of tasks the body declares
_build_result(outputs, p) ==
    LET total_tasks == Len(_parse_generation_tasks(p))
    IN  [status |-> ModuleStatus(Len(outputs), total_tasks),
         num_outputs |-> Len(outputs),
         total_tasks |-> total_tasks]

-----------------------------------------------------------------------------
(* A single-module job, step by step (it awaits the style resolver, storage *)
(* and the inference provider)                                              *)

NoReferenceData == [asset_items |-> <<>>, has_reference_prompts |-> FALSE]

\* d.get(k)
DictGet(d, k) == IF HasKey(d, k) THEN d[KeyIndex(d, k)].value ELSE NoneVal

\* the dict reference_data that _process_files_and_art_style returns to the
\* tasks of job j: empty, or the three keys it takes from what
\* process_asset_references returned (result)
ReferenceData(j, result) ==
    IF j.reference_data.has_reference_prompts
    THEN <<[key |-> "asset_description", value |-> "Asset references from archive"],
           [key |-> "reference_prompts",
            value |-> result.reference_prompts],
           [key |-> "asset_items", value |-> j.reference_data.asset_items]>>
    ELSE <<>>

\* the parts build_complete_prompt adds to the prompt from reference_data
\* (if reference_data.get(key): the key is held and its value is not empty)
build_complete_prompt_reference(reference_data) ==
    (IF HasKey(reference_data, "asset_description")
        /\ DictGet(reference_data, "asset_description") \notin {NoneVal, ""}
     THEN <<"Reference: " \o DictGet(reference_data, "asset_description")>> ELSE <<>>)
    \o (IF HasKey(reference_data, "reference_prompt")
           /\ DictGet(reference_data, "reference_prompt") \notin {NoneVal, ""}
        THEN <<"Asset reference: " \o DictGet(reference_data, "reference_prompt")>>
        ELSE <<>>)

\* SymbolsService._get_category_requirements: the clauses of the
\* subcategory, of the first subcategory of a known category, or of a custom
\* category
category_templates ==
    [base_symbols |->
        <<[key |-> "low_value",
           value |-> <<"designed as a lower-value game symbol",
                       "clean and recognizable design",
                       "suitable for frequent appearance">>],
          [key |-> "high_value",
           value |-> <<"designed as a high-value premium symbol",
                       "ornate and eye-catching appearance",
                       "detailed and luxurious design">>]>>,
     special_symbols |->
        <<[key |-> "wild",
           value |-> <<"designed as a WILD symbol with powerful visual impact",
                       "magical or mystical elements",
                       "glowing effects",
                       "besides main element, should have a frame, may include 'WILD' text and optional multiplier values in the same row">>],
          [key |-> "scatter",
           value |-> <<"designed as a SCATTER symbol with dynamic energy",
                       "radiating or explosive visual elements",
                       "sparkling effects",
                       "conveys bonus trigger functionality",
                       "besides main element, should have a frame">>],
          [key |-> "bonus",
           value |-> <<"designed as a BONUS symbol representing rewards",
                       "treasure or prize-like elements",
                       "golden glow or valuable appearance">>]>>]

_get_category_requirements(category, subcategory) ==
    IF category \in DOMAIN category_templates
    THEN (IF HasKey(category_templates[category], subcategory)
          THEN DictGet(category_templates[category], subcategory)
          ELSE category_templates[category][1].value)
    ELSE <<"designed as a " \o category \o " symbol",
           "distinctive and clear design",
           "optimized for game use">>

\* SymbolsService.build_content_prompt: the content clauses of a task
build_content_prompt(task_info) ==
    JoinWith(<<"Create a slot machine symbol: " \o task_info.description,
               "high quality game asset",
               "centered composition",
               "clear silhouette",
               "suitable for slot machine gameplay">>
             \o _get_category_requirements(task_info.category, task_info.subcategory),
             ", ")

\* BaseImageService.build_complete_prompt (two variants come first, for
\* comparison: one keeps its list of parts from one call to the next, one
\* puts the reference clauses last)
build_complete_prompt_SharedParts(task_info, art_style_data, reference_data) ==
    JoinWith(Concat(composer.prompts)
             \o <<build_content_prompt(task_info),
                  "Art style: " \o art_style_data.style_prompt,
                  "Category: " \o task_info.category \o ", Subcategory: "
                      \o task_info.subcategory>>
             \o build_complete_prompt_reference(reference_data)
             \o <<"Technical specs: " \o task_info.resolution
                     \o " resolution, isolated on transparent background",
                  "Quality: " \o art_style_data.quality_tags>>,
             ", ")

build_complete_prompt_ReferenceLast(task_info, art_style_data, reference_data) ==
    JoinWith(<<build_content_prompt(task_info),
               "Art style: " \o art_style_data.style_prompt,
               "Category: " \o task_info.category \o ", Subcategory: "
                   \o task_info.subcategory,
               "Technical specs: " \o task_info.resolution
                   \o " resolution, isolated on transparent background",
               "Quality: " \o art_style_data.quality_tags>>
             \o build_complete_prompt_reference(reference_data),
             ", ")

build_complete_prompt(task_info, art_style_data, reference_data) ==
    LET style_prompt == IF art_style_data.style_prompt = Missing
                        THEN "high quality artwork" ELSE art_style_data.style_prompt
        tags == IF art_style_data.quality_tags = Missing
                THEN "high quality, professional design"
                ELSE art_style_data.quality_tags
    IN  JoinWith(<<build_content_prompt(task_info),
                   "Art style: " \o style_prompt,
                   "Category: " \o task_info.category \o ", Subcategory: "
                       \o task_info.subcategory>>
                 \o build_complete_prompt_reference(reference_data)
                 \o <<"Technical specs: " \o task_info.resolution
                         \o " resolution, isolated on transparent background",
                      "Quality: " \o tags>>,
                 ", ")

\* the reference image urls of the inference parameters of a task: what
\* prepare_inference_params takes from reference_data, replaced by what
\* _generate_single_image looks up in reference_data["image_urls"]
inference_image_urls(generation_mode, task_info, reference_data) ==
    LET prepared == IF HasKey(reference_data, "reference_image_urls")
                    THEN DictGet(reference_data, "reference_image_urls") ELSE <<>>
        looked_up == IF /\ generation_mode = "reference_assets"
                        /\ HasKey(reference_data, "image_urls")
                     THEN get_reference_image_urls_for_task(
                              task_info, DictGet(reference_data, "image_urls"))
                     ELSE <<>>
    IN  IF looked_up # <<>> THEN looked_up ELSE prepared

IdleJob ==
    [pc |-> "idle", entry |-> NoneVal, task_id |-> NoneVal, module |-> NoneVal,
     generation_mode |-> NoneVal, art_style |-> NoArtStyle,
     reference_images |-> <<>>, asset_references |-> FALSE,
     art_style_data |-> NoStyle, style_raised |-> FALSE,
     reference_data |-> NoReferenceData,
     results |-> <<>>, storage_error |-> FALSE,
     outputs |-> <<>>, result |-> NoResult, cause |-> NoneVal]

\* what the coroutine of one task is doing / how it ended
Launched == [raised |-> FALSE, cause |-> "launched", value |-> NoneVal]

JsonContents ==
    {SingleContent, ScenarioContent, EmptyListContent, EmptyParams("symbols"),
     MalformedContent}

FilesContents == {SingleContent, EmptyListContent, MalformedContent}

\* archives a client uploads as asset_references: one image; an image and a
\* text file of the same stem; a file outside the 3-level layout
JobArchives ==
    {<<[category |-> "base_symbols", subcategory |-> "s1", stem |-> "a",
        ext |-> ".png", depth |-> 3]>>,
     <<[category |-> "base_symbols", subcategory |-> "s1", stem |-> "a",
        ext |-> ".png", depth |-> 3],
       [category |-> "base_symbols", subcategory |-> "s1", stem |-> "a",
        ext |-> ".txt", depth |-> 3]>>,
     <<[category |-> "base_symbols", subcategory |-> "s1", stem |-> "a",
        ext |-> ".png", depth |-> 3],
       [category |-> "base_symbols", subcategory |-> "s2", stem |-> "a",
        ext |-> ".png", depth |-> 3]>>,
     <<[category |-> "extras", subcategory |-> "", stem |-> "a",
        ext |-> ".png", depth |-> 2]>>}

\* the largest max_images the style endpoint admits (Form(..., ge=1, le=10))
max_images_le == 10

\* one reference image more than that endpoint admits, all of them acceptable
OversizeImages ==
    [i \in 1..(max_images_le + 1) |-> [stem |-> "ref", ext |-> "png", acceptable |-> TRUE]]

\* the handler rejects the request: HTTPException(400)
Abort(j, cause) == [j EXCEPT !.pc = "aborted", !.cause = cause]

\* handle_module_generation_json / handle_module_generation_with_files up to
\* the style resolution: the entry's mode check, then _parse_request
ReceiveJob(entry, module, model_ok, generation_mode, p, art_style, reference_images, uploaded) ==
    /\ job.pc = "idle"
    /\ LET j == [IdleJob EXCEPT
                    !.entry = entry, !.module = module,
                    !.task_id = module \o "_" \o NatToStr(uuid_next),
                    !.generation_mode = generation_mode,
                    !.art_style = art_style,
                    !.reference_images = reference_images,
                    !.asset_references = (uploaded # <<>>)]
           wrong_entry == IF entry = "json" THEN generation_mode # "prompt_only"
                          ELSE generation_mode = "prompt_only"
           error == _parse_request(module, model_ok, generation_mode, p, art_style)
       IN  job' = IF wrong_entry THEN Abort(j, "wrong entry point")
                  ELSE IF error # NoneVal THEN Abort(j, error)
                  ELSE [j EXCEPT !.pc = "style"]
    /\ params' = p
    /\ archive' = uploaded
    /\ uuid_next' = uuid_next + 1
    /\ UNCHANGED <<decompVars, storage, style, composite, lookup, composer>>

\* onwards from the style resolution
AfterStyle(j, art_style_data, raised) ==
    [j EXCEPT !.pc = IF j.entry = "files" THEN "references" ELSE "launch",
              !.art_style_data = art_style_data,
              !.style_raised = raised]

\* _generate_art_style / _process_files_and_art_style up to the await of the
\* resolver
BeginArtStyle ==
    /\ job.pc = "style"
    /\ IF job.entry = "files" /\ job.art_style.mode = "reference_image"
       THEN LET error == ReferenceImagesError(job.reference_images,
                                              Len(job.reference_images))
            IN  IF error # NoneVal
                THEN job' = Abort(job, error) /\ UNCHANGED style
                ELSE /\ job' = [job EXCEPT !.pc = "style_wait"]
                     /\ style' = ReferenceImageCall(job.reference_images,
                                                    job.art_style.ai_model_ok,
                                                    Len(job.reference_images))
       ELSE LET call == ArtStyleCall(job.art_style)
            IN  IF call = IdleStyle
                THEN job' = AfterStyle(job, FallbackStyle, TRUE) /\ UNCHANGED style
                ELSE job' = [job EXCEPT !.pc = "style_wait"] /\ style' = call
    /\ UNCHANGED <<composer, lookup, requestVars, decompVars, storeVars, composite>>

\* the resolver call is over: _generate_art_style turns an exception into the
\* fallback; _process_files_and_art_style lets the exception of the
\* reference-image resolver through, and the entry point answers 400
EndArtStyle ==
    /\ job.pc = "style_wait"
    /\ style.pc \in {"returned", "raised"}
    /\ job' = IF style.pc = "returned" THEN AfterStyle(job, style.result, FALSE)
              ELSE IF style.mode = "reference_image"
              THEN [Abort(job, style.cause) EXCEPT !.style_raised = TRUE]
              ELSE AfterStyle(job, FallbackStyle, TRUE)
    /\ style' = IdleStyle
    /\ UNCHANGED <<composer, lookup, requestVars, decompVars, storeVars, composite>>

\* _process_files_and_art_style, second part: the archive is ingested when
\* there is one (the entry point is only served in reference_assets mode)
\* the job after step 2 of _process_files_and_art_style, result being what
\* process_asset_references returned: reference_data is filled only from a
\* successful result, and the job goes on either way (a variant that gives
\* the job up on a failed result comes first, for comparison)
AfterAssetReferences_Aborting(j, result) ==
    IF result.processing_success
    THEN [j EXCEPT !.pc = "launch",
                   !.reference_data = [asset_items |-> result.asset_items,
                                       has_reference_prompts |-> TRUE]]
    ELSE Abort(j, result.error)

AfterAssetReferences(j, result) ==
    IF result.processing_success
    THEN [j EXCEPT !.pc = "launch",
                   !.reference_data = [asset_items |-> result.asset_items,
                                       has_reference_prompts |-> TRUE]]
    ELSE [j EXCEPT !.pc = "launch"]

\* step 2 of _process_files_and_art_style. The uploaded file is a zip, a
\* file of a type that _is_valid_archive_file refuses, or a file that
\* zipfile cannot open; in the last two cases process_asset_references
\* catches its own exception and returns the failure result
ProcessAssetReferences ==
    /\ job.pc = "references"
    /\ IF job.generation_mode = "reference_assets" /\ job.asset_references
       THEN \E kind \in {"zip", "unsupported archive type", "invalid zip"} :
              IF kind = "zip"
              THEN LET infos == [i \in DOMAIN archive |-> LeafInfo(archive[i])]
                   IN  \E outcomes \in StorageOutcomes(archive, infos) :
                        LET r == _parse_zip_structure_with_s3_upload(
                                     archive, infos, outcomes, uuid_next)
                        IN  /\ asset_result' = process_asset_references(r, job.module)
                            /\ storage' = storage \cup r.created
                            /\ uuid_next' = r.uuid_next
                            /\ job' = AfterAssetReferences(job,
                                         process_asset_references(r, job.module))
              ELSE /\ asset_result' = [EmptyAssetResult EXCEPT !.error = kind]
                   /\ job' = AfterAssetReferences(job,
                                [EmptyAssetResult EXCEPT !.error = kind])
                   /\ UNCHANGED storeVars
       ELSE /\ job' = [job EXCEPT !.pc = "launch"]
            /\ UNCHANGED <<asset_result, storeVars>>
    /\ UNCHANGED <<composer, lookup, requestVars, generation_tasks, parser, style, composite>>

\* _execute_generation up to the gather: the task list, one coroutine each
ExecuteGeneration ==
    /\ job.pc = "launch"
    /\ LET from_references == /\ job.generation_mode = "reference_assets"
                              /\ job.reference_data.asset_items # <<>>
           tasks == IF from_references
                    THEN _parse_generation_tasks_from_references(
                             job.reference_data.asset_items,
                             params.default_resolution)
                    ELSE _parse_generation_tasks(params)
       IN  /\ generation_tasks' = tasks
           /\ parser' = IF from_references THEN "reference" ELSE "handler"
           /\ job' = [job EXCEPT !.pc = "running",
                                 !.results = [t \in DOMAIN tasks |-> Launched]]
    /\ UNCHANGED <<composer, lookup, requestVars, asset_result, storeVars, style, composite>>

\* _generate_single_image of task t returns what _save_image built
TaskSucceeds(t) ==
    /\ job.pc = "running"
    /\ job.results[t].cause = "launched"
    /\ LET saved == SavedImage(job.module, job.task_id, generation_tasks[t])
       IN  /\ job' = [job EXCEPT !.results[t] = Return(saved)]
           /\ storage' = storage \cup {saved.s3_key}
    /\ UNCHANGED <<composer, lookup, requestVars, decompVars, uuid_next, style, composite>>

\* _generate_single_image of task t raises at some stage (the exception is
\* logged and raised again: it becomes the task's entry in the gather)
\* stage: where _generate_single_image raises (prompt, inference, decode, upload)
TaskRaises(t, stage) ==
    /\ job.pc = "running"
    /\ job.results[t].cause = "launched"
    /\ job' = [job EXCEPT !.results[t] = Raise("task", NoneVal),
                          !.storage_error = @ \/ (stage = "upload")]
    /\ UNCHANGED <<composer, lookup, requestVars, decompVars, storeVars, style, composite>>

\* the gather is over: _execute_generation returns the successful results
\* and the entry point builds the job result
BuildResult ==
    /\ job.pc = "running"
    /\ \A t \in DOMAIN job.results : job.results[t].cause # "launched"
    /\ LET outputs == successful_results(job.results)
       IN  job' = [job EXCEPT !.pc = "done",
                              !.outputs = outputs,
                              !.result = _build_result(outputs, params)]
    /\ UNCHANGED <<composer, lookup, requestVars, decompVars, storeVars, style, composite>>

-----------------------------------------------------------------------------
(* A complete-game job over several modules, step by step                   *)

\* all(...) / any(...) over the module statuses, and the overall status of
\* _build_complete_result (a variant with any for all comes first, for
\* comparison)
OverallStatus_AnyCompleted(statuses) ==
    IF \E i \in DOMAIN statuses : statuses[i] = "completed" THEN "completed"
    ELSE IF \E i \in DOMAIN statuses :
                statuses[i] \in {"completed", "partial_completed"}
         THEN "partial_completed"
    ELSE "failed"

OverallStatus(statuses) ==
    LET all_completed == \A i \in DOMAIN statuses : statuses[i] = "completed"
        any_completed == \E i \in DOMAIN statuses :
                            statuses[i] \in {"completed", "partial_completed"}
    IN  IF all_completed THEN "completed"
        ELSE IF any_completed THEN "partial_completed"
        ELSE "failed"

\* modules_config: an insertion-ordered dict module name -> module body; the
\* orders of names a client sends
ModuleOrders ==
    {<<>>, <<"symbols">>, <<"symbols", "ui">>, <<"ui", "symbols">>,
     <<"symbols", "unknown">>, <<"unknown", "ui">>}

BodyModule(name) == IF name \in Modules THEN name ELSE "symbols"

\* module bodies: two outputs of one item; an empty list; an item whose count
\* is out of range
ModuleContents(name) ==
    {WithItems(EmptyParams(BodyModule(name)), category_attrs[BodyModule(name)][1],
               "s1", items) :
        items \in {<<Item("a", "d1", 2)>>, <<>>, <<Item("a", "d1", 0)>>}}

\* the art_style of a module body: absent (NoArtStyle), or its own; the
\* global_art_style: absent, or a preset
ModuleBodies(names) ==
    {bodies \in [DOMAIN names -> [p : UNION {ModuleContents(n) : n \in Range(names)},
                                  art_style : {NoArtStyle, ArtStyleConfig("custom_ai_enhanced", NoneVal,
                                               NoComponents, "neon city")}]] :
        \A k \in DOMAIN names : bodies[k].p \in ModuleContents(names[k])}

IdleComposite ==
    [pc |-> "idle", entry |-> NoneVal, reference_images |-> <<>>,
     task_id |-> NoneVal, generation_mode |-> NoneVal,
     global_art_style |-> NoArtStyle, names |-> <<>>, bodies |-> <<>>,
     module_requests |-> <<>>, results |-> <<>>, raised |-> {},
     inference_calls |-> 0,
     module_results |-> <<>>, status |-> NoneVal, cause |-> NoneVal]

\* handle_complete_game_generation_json up to _build_module_requests
ReceiveComposite(generation_mode, global_art_style, names, bodies) ==
    /\ composite.pc = "idle"
    /\ composite' =
          [IdleComposite EXCEPT
              !.pc = IF generation_mode # "prompt_only" THEN "aborted" ELSE "build",
              !.cause = IF generation_mode # "prompt_only"
                        THEN "wrong entry point" ELSE NoneVal,
              !.entry = "json",
              !.task_id = "complete_game_" \o NatToStr(uuid_next),
              !.generation_mode = generation_mode,
              !.global_art_style = global_art_style,
              !.names = names, !.bodies = bodies]
    /\ uuid_next' = uuid_next + 1
    /\ UNCHANGED <<composer, lookup, requestVars, decompVars, storage, style, job>>

\* handle_complete_game_generation_with_files up to _build_module_requests
ReceiveCompositeWithFiles(generation_mode, global_art_style, names, bodies, reference_images) ==
    /\ composite.pc = "idle"
    /\ composite' =
          [IdleComposite EXCEPT
              !.pc = IF generation_mode = "prompt_only" THEN "aborted" ELSE "build",
              !.cause = IF generation_mode = "prompt_only"
                        THEN "wrong entry point" ELSE NoneVal,
              !.entry = "files",
              !.reference_images = reference_images,
              !.task_id = "complete_game_" \o NatToStr(uuid_next),
              !.generation_mode = generation_mode,
              !.global_art_style = global_art_style,
              !.names = names, !.bodies = bodies]
    /\ uuid_next' = uuid_next + 1
    /\ UNCHANGED <<composer, lookup, requestVars, decompVars, storage, style, job>>

\* one more module request is stored, with its style
WithModuleRequest(c, art_style_data) ==
    [c EXCEPT !.module_requests =
        Append(@, [module |-> c.names[Len(@) + 1],
                   generation_params |-> c.bodies[Len(@) + 1].p,
                   art_style_data |-> art_style_data])]

\* the art_style a module is parsed and resolved with: its own, or the global
\* one when its body has no art_style key (a variant that takes the global
\* one for every module comes first, for comparison)
ModuleArtStyle_AlwaysGlobal(module_config, global_art_style) == global_art_style

ModuleArtStyle(module_config, global_art_style) ==
    IF module_config.art_style = NoArtStyle THEN global_art_style
    ELSE module_config.art_style

\* _build_module_requests, one turn of its loop up to the await of the
\* resolver: the global style is put into a body that has none, the body is
\* parsed, the style resolution starts
BuildModuleRequest ==
    /\ composite.pc = "build"
    /\ Len(composite.module_requests) < Len(composite.names)
    /\ LET k == Len(composite.module_requests) + 1
           art_style == ModuleArtStyle(composite.bodies[k], composite.global_art_style)
           error == _parse_request(composite.names[k], TRUE,
                                   composite.generation_mode,
                                   composite.bodies[k].p, art_style)
           call == ArtStyleCall(art_style)
       IN  IF error # NoneVal
           THEN /\ composite' = [composite EXCEPT !.pc = "aborted", !.cause = error]
                /\ UNCHANGED style
           ELSE IF call = IdleStyle
           THEN /\ composite' = WithModuleRequest(composite, FallbackStyle)
                /\ UNCHANGED style
           ELSE /\ composite' = [composite EXCEPT !.pc = "style_wait"]
                /\ style' = call
    /\ UNCHANGED <<composer, lookup, requestVars, decompVars, storeVars, job>>

\* the resolver call of the turn is over (_generate_art_style turns an
\* exception into the fallback)
EndModuleStyle ==
    /\ composite.pc = "style_wait"
    /\ style.pc \in {"returned", "raised"}
    /\ composite' =
          [WithModuleRequest(composite,
                             IF style.pc = "returned" THEN style.result
                             ELSE FallbackStyle)
           EXCEPT !.pc = "build",
                  !.inference_calls = @ + style.inference_calls]
    /\ style' = IdleStyle
    /\ UNCHANGED <<composer, lookup, requestVars, decompVars, storeVars, job>>

\* handle_complete_game_generation_with_files after _build_module_requests:
\* _process_files_and_art_style is given global_style, the dict that the
\* router made with json.loads, and its first statement reads
\* art_style_config.mode: a dict has no such attribute, AttributeError is
\* raised, and the handler turns it into HTTP 400 before
\* _execute_parallel_modules is reached
ProcessGlobalFiles ==
    /\ composite.pc = "build" /\ composite.entry = "files"
    /\ Len(composite.module_requests) = Len(composite.names)
    /\ composite' = [composite EXCEPT !.pc = "aborted", !.cause = "AttributeError"]
    /\ UNCHANGED <<composer, lookup, requestVars, decompVars, storeVars, style, job>>

\* _execute_parallel_modules up to the gather: _execute_generation of every
\* module, each up to its own gather
ExecuteParallelModules ==
    /\ composite.pc = "build" /\ composite.entry = "json"
    /\ Len(composite.module_requests) = Len(composite.names)
    /\ composite' =
          [composite EXCEPT
              !.pc = "running",
              !.results =
                 [k \in DOMAIN composite.module_requests |->
                    [t \in DOMAIN _parse_generation_tasks(
                               composite.module_requests[k].generation_params)
                        |-> Launched]]]
    /\ UNCHANGED <<composer, lookup, requestVars, decompVars, storeVars, style, job>>

ModuleTask(k, t) ==
    _parse_generation_tasks(composite.module_requests[k].generation_params)[t]

\* _generate_single_image of task t of module k returns
ModuleTaskSucceeds(k, t) ==
    /\ composite.pc = "running"
    /\ k \notin composite.raised
    /\ composite.results[k][t].cause = "launched"
    /\ LET saved == SavedImage(composite.names[k], composite.task_id, ModuleTask(k, t))
       IN  /\ composite' = [composite EXCEPT !.results[k][t] = Return(saved),
                                             !.inference_calls = @ + 1]
           /\ storage' = storage \cup {saved.s3_key}
    /\ UNCHANGED <<composer, lookup, requestVars, decompVars, uuid_next, style, job>>

\* _generate_single_image of task t of module k raises
ModuleTaskRaises(k, t) ==
    /\ composite.pc = "running"
    /\ k \notin composite.raised
    /\ composite.results[k][t].cause = "launched"
    /\ composite' = [composite EXCEPT !.results[k][t] = Raise("task", NoneVal)]
    /\ UNCHANGED <<composer, lookup, requestVars, decompVars, storeVars, style, job>>

\* the module entry of _execute_parallel_modules
ModuleResult(name, p, results) ==
    LET result == successful_results(results)
        total_tasks == Len(_parse_generation_tasks(p))
    IN  [module |-> name,
         status |-> ModuleStatus(Len(result), total_tasks),
         num_outputs |-> Len(result),
         total_tasks |-> total_tasks]

\* _execute_generation of module k raises: outside its own gather, so before
\* any of its tasks has started or after all of them have ended (the outer
\* gather keeps the exception as the result of the module)
ModulePipelineRaises(k) ==
    /\ composite.pc = "running"
    /\ k \notin composite.raised
    /\ \/ \A t \in DOMAIN composite.results[k] :
             composite.results[k][t].cause = "launched"
       \/ \A t \in DOMAIN composite.results[k] :
             composite.results[k][t].cause # "launched"
    /\ composite' = [composite EXCEPT !.raised = @ \cup {k}]
    /\ UNCHANGED <<composer, lookup, requestVars, decompVars, storeVars, style, job>>

\* the loop over zip(module_tasks.keys(), results): an exception gives a
\* failed entry, a result list gives the entry of the module (a variant in
\* which one exception fails every module comes first, for comparison)
ModuleResults_Cancelling(c) ==
    [k \in DOMAIN c.module_requests |->
        IF c.raised # {}
        THEN [module |-> c.names[k], status |-> "failed",
              num_outputs |-> 0, total_tasks |-> 0]
        ELSE ModuleResult(c.names[k], c.module_requests[k].generation_params,
                          c.results[k])]

ModuleResults(c) ==
    [k \in DOMAIN c.module_requests |->
        IF k \in c.raised
        THEN [module |-> c.names[k], status |-> "failed",
              num_outputs |-> 0, total_tasks |-> 0]
        ELSE ModuleResult(c.names[k], c.module_requests[k].generation_params,
                          c.results[k])]

\* every module has ended (its gather is over, or it raised): the module
\* results, then _build_complete_result
BuildCompleteResult ==
    /\ composite.pc = "running"
    /\ \A k \in DOMAIN composite.results :
          \/ k \in composite.raised
          \/ \A t \in DOMAIN composite.results[k] :
                composite.results[k][t].cause # "launched"
    /\ LET module_results == ModuleResults(composite)
       IN  composite' =
              [composite EXCEPT
                  !.pc = "done",
                  !.module_results = module_results,
                  !.status = OverallStatus([k \in DOMAIN module_results |->
                                                module_results[k].status])]
    /\ UNCHANGED <<composer, lookup, requestVars, decompVars, storeVars, style, job>>

-----------------------------------------------------------------------------
(* Decomposition on its own: a client assembles a request body or an       *)
(* archive, then one of the decomposers is applied to it                   *)

DecompInit ==
    /\ \E m \in Modules : params = EmptyParams(m)
    /\ archive = <<>>
    /\ asset_result = EmptyAssetResult
    /\ generation_tasks = <<>>
    /\ parser = "none"
    /\ storage = {}
    /\ uuid_next = 0
    /\ style = IdleStyle
    /\ job = IdleJob
    /\ composite = IdleComposite
    /\ lookup = IdleLookup
    /\ composer = IdleComposer

\* the body holds "b": {}
DeclareEmptyBucket(b) ==
    /\ parser = "none" /\ archive = <<>>
    /\ ~params.content[b].set
    /\ RequestSize(params) < MaxItems
    /\ params' = [params EXCEPT !.content[b] = [set |-> TRUE, entries |-> <<>>]]
    /\ UNCHANGED <<archive, decompVars, storeVars>>

\* the body holds "b": {"s": []}
DeclareEmptyList(b, s) ==
    /\ parser = "none" /\ archive = <<>>
    /\ ~HasKey(params.content[b].entries, s)
    /\ RequestSize(params) < MaxItems
    /\ params' = [params EXCEPT !.content[b] = WithKey(@, s)]
    /\ UNCHANGED <<archive, decompVars, storeVars>>

\* the body holds one more element in "b": {"s": [...]}
DeclareItem(b, s, item) ==
    /\ parser = "none" /\ archive = <<>>
    /\ RequestSize(params) < MaxItems
    /\ params' = [params EXCEPT !.content[b] = WithItem(@, s, item)]
    /\ UNCHANGED <<archive, decompVars, storeVars>>

\* the archive holds one more file (zip member names are distinct)
AddLeaf(leaf) ==
    /\ parser = "none" /\ RequestSize(params) = 0
    /\ Len(archive) < MaxLeaves
    /\ \A i \in DOMAIN archive : LeafPath(archive[i]) # LeafPath(leaf)
    /\ archive' = Append(archive, leaf)
    /\ UNCHANGED <<params, decompVars, storeVars>>

\* ImageHandler._parse_generation_tasks on a request the DTO layer accepted
ParseDeclared ==
    /\ parser = "none" /\ archive = <<>>
    /\ \A item \in AllItems(params) : item.isdict
    /\ generation_tasks' = _parse_generation_tasks(params)
    /\ parser' = "handler"
    /\ UNCHANGED <<composer, lookup, requestVars, asset_result, storeVars>>

\* BaseImageService.parse_generation_tasks on raw (dict or legacy) items
ParseBase ==
    /\ parser = "none" /\ archive = <<>>
    /\ generation_tasks' = Base_parse_generation_tasks(params)
    /\ parser' = "base"
    /\ UNCHANGED <<composer, lookup, requestVars, asset_result, storeVars>>

\* FileProcessingService.process_asset_references, the archive being a zip
IngestArchive ==
    /\ parser = "none" /\ archive # <<>>
    /\ LET infos == [i \in DOMAIN archive |-> LeafInfo(archive[i])]
       IN  \E outcomes \in StorageOutcomes(archive, infos) :
            LET r == _parse_zip_structure_with_s3_upload(archive, infos,
                                                        outcomes, uuid_next)
            IN  /\ asset_result' = process_asset_references(r, params.module)
                /\ storage' = storage \cup r.created
                /\ uuid_next' = r.uuid_next
    /\ parser' = "ingested"
    /\ UNCHANGED <<composer, lookup, requestVars, generation_tasks>>

\* ImageHandler._parse_generation_tasks_from_references on the ingested tree
ParseReferences ==
    /\ parser = "ingested"
    /\ asset_result.asset_items # <<>>
    /\ generation_tasks' =
          _parse_generation_tasks_from_references(asset_result.asset_items,
                                                  params.default_resolution)
    /\ parser' = "reference"
    /\ UNCHANGED <<composer, lookup, requestVars, asset_result, storeVars>>

DecompNext ==
    \/ /\ \E b \in DOMAIN params.content : DeclareEmptyBucket(b)
       /\ UNCHANGED pipelineVars
    \/ /\ \E b \in DOMAIN params.content, s \in Subcategories :
             DeclareEmptyList(b, s)
       /\ UNCHANGED pipelineVars
    \/ /\ \E b \in DOMAIN params.content, s \in Subcategories,
             item \in AssetItems \cup {LegacyItem} : DeclareItem(b, s, item)
       /\ UNCHANGED pipelineVars
    \/ (\E leaf \in Leaves : AddLeaf(leaf)) /\ UNCHANGED pipelineVars
    \/ ParseDeclared /\ UNCHANGED pipelineVars
    \/ ParseBase /\ UNCHANGED pipelineVars
    \/ IngestArchive /\ UNCHANGED pipelineVars
    \/ ParseReferences /\ UNCHANGED pipelineVars

SpecDecomp == DecompInit /\ [][DecompNext]_vars

-----------------------------------------------------------------------------
(* Properties of the decomposition *)

\* what was handed to the decomposer, as one tree category -> subcategory ->
\* items: the content buckets of the body (custom_content is category
\* "custom"), or the asset_items of the ingested archive
CountedItem(item) ==
    [filename |-> item.filename, description |-> item.description,
     resolution |-> item.resolution,
     count |-> IF item.isdict THEN item.count ELSE 0]

SourceBucket(name, bucket) ==
    [key |-> IF name = "custom_content" THEN "custom" ELSE name,
     subs |-> [e \in DOMAIN bucket.entries |->
                [key |-> bucket.entries[e].key,
                 items |-> [k \in DOMAIN bucket.entries[e].items |->
                              CountedItem(bucket.entries[e].items[k])]]]]

SourceTree ==
    IF parser \in {"ingested", "reference"} THEN asset_result.asset_items
    ELSE [c \in DOMAIN BucketOrder(params) |->
            SourceBucket(BucketOrder(params)[c],
                         params.content[BucketOrder(params)[c]])]

\* the declared items (one per position of the tree) that carry a count, each
\* with the resolution its outputs are to have
SourceItems ==
    UNION {UNION {{[pos |-> <<c, e, k>>,
                    category |-> SourceTree[c].key,
                    subcategory |-> SourceTree[c].subs[e].key,
                    filename |-> SourceTree[c].subs[e].items[k].filename,
                    description |-> SourceTree[c].subs[e].items[k].description,
                    resolution |-> ResolutionOr(SourceTree[c].subs[e].items[k],
                                                params.default_resolution),
                    count |-> SourceTree[c].subs[e].items[k].count] :
                        k \in DOMAIN SourceTree[c].subs[e].items} :
                    e \in DOMAIN SourceTree[c].subs} : c \in DOMAIN SourceTree}

Decomposed == parser \in {"handler", "base", "reference"}

SameAsset(x, y) ==
    /\ x.category = y.category
    /\ x.subcategory = y.subcategory
    /\ x.filename = y.filename
    /\ x.description = y.description
    /\ x.resolution = y.resolution

\* C1: a declared item with count N becomes exactly N tasks, with indices
\* 1..N (each once) and the item's category, subcategory, filename, description
\* and resolution (its own, or the module default), in every decomposer (fixed categories, custom content, reference archive,
\* and the base service on dict-format items); no other task is produced
C1_TaskDecomposition ==
    Decomposed =>
        /\ \A it \in SourceItems : \A i \in 1..it.count :
              Cardinality({t \in DOMAIN generation_tasks :
                              /\ SameAsset(generation_tasks[t], it)
                              /\ generation_tasks[t].index = i})
              = Cardinality({other \in SourceItems :
                              SameAsset(other, it) /\ other.count >= i})
        /\ \A t \in DOMAIN generation_tasks : \E it \in SourceItems :
              /\ SameAsset(generation_tasks[t], it)
              /\ generation_tasks[t].index \in 1..it.count

\* a request with an item of count MaxCount has been decomposed by the handler
C1_Witness ==
    /\ parser = "handler"
    /\ \E it \in SourceItems : it.count = MaxCount /\ it.count > 1
    /\ Len(generation_tasks) >= MaxCount

\* C8: no two tasks of one module job share (category, subcategory, filename,
\* index)
C8_TaskIdentityUnique ==
    Decomposed =>
        \A t, u \in DOMAIN generation_tasks :
            (/\ generation_tasks[t].category = generation_tasks[u].category
             /\ generation_tasks[t].subcategory = generation_tasks[u].subcategory
             /\ generation_tasks[t].filename = generation_tasks[u].filename
             /\ generation_tasks[t].index = generation_tasks[u].index) => t = u

-----------------------------------------------------------------------------
(* The art style service on its own: the style endpoints call a resolver    *)

PipelineInit ==
    /\ params = EmptyParams("symbols")
    /\ archive = <<>>
    /\ asset_result = EmptyAssetResult
    /\ generation_tasks = <<>>
    /\ parser = "none"
    /\ storage = {}
    /\ uuid_next = 0
    /\ style = IdleStyle
    /\ job = IdleJob
    /\ composite = IdleComposite
    /\ lookup = IdleLookup
    /\ composer = IdleComposer

\* what a step of a resolver leaves alone
styleFrame == <<requestVars, decompVars, job, composite, lookup, composer>>
styleOnly == <<requestVars, decompVars, storeVars, job, composite, lookup, composer>>

\* the style endpoints call a resolver; the reference images are those the
\* endpoint has accepted
StyleNext ==
    \/ /\ style.pc = "idle"
       /\ \E theme \in DOMAIN preset_themes \cup {"unknown_theme"} :
             style' = PresetCall(theme)
       /\ UNCHANGED styleOnly
    \/ /\ style.pc = "idle"
       /\ \E sc \in DirectComponents : style' = CustomDirectCall(sc)
       /\ UNCHANGED styleOnly
    \/ /\ style.pc = "idle"
       /\ \E model_ok \in BOOLEAN :
             style' = CustomAIEnhancedCall("neon city", model_ok)
       /\ UNCHANGED styleOnly
    \/ /\ style.pc = "idle"
       /\ \E images \in SeqsUpTo({image \in ReferenceImages : image.acceptable},
                                 MaxImages),
             model_ok \in BOOLEAN, max_images \in 1..MaxImages :
             style' = ReferenceImageCall(images, model_ok, max_images)
       /\ UNCHANGED styleOnly
    \/ GeneratePresetStyle /\ UNCHANGED styleOnly
    \/ GenerateCustomDirectStyle /\ UNCHANGED styleOnly
    \/ GenerateCustomAIEnhancedStyle /\ UNCHANGED styleOnly
    \/ ValidateReferenceImages /\ UNCHANGED styleOnly
    \/ (\E outcome \in UploadOutcomes : UploadTempImage(outcome))
          /\ UNCHANGED styleFrame
    \/ AnalyzeImages /\ UNCHANGED styleOnly
    \/ (\E deleted \in BOOLEAN : CleanupTempImage(deleted))
          /\ UNCHANGED styleFrame
    \/ LeaveReferenceImageStyle /\ UNCHANGED styleOnly

SpecStyle == PipelineInit /\ [][StyleNext]_vars

\* C4: when generate_reference_image_style is over, on whatever path, no
\* object that the call put into temporary storage is still there (deletes
\* that storage itself refused are left aside)
C4_StagedImagesDeleted ==
    (style.pc \in {"returned", "raised"} /\ style.mode = "reference_image"
        /\ ~style.delete_failed)
        => style.staged \cap storage = {}

\* C5: the descriptor a resolver returns, in any of the 4 modes, and the
\* fallback descriptor have a components.base_prompt that is not empty
C5_BasePromptNonEmpty ==
    /\ FallbackStyle.components.base_prompt \notin {"", NoneVal, Missing}
    /\ style.pc = "returned" =>
          style.result.components.base_prompt \notin {"", NoneVal, Missing}

-----------------------------------------------------------------------------
(* One single-module job, from either entry point                           *)

\* a client sends a job for a module, known or not; with a file-upload job go
\* reference images and an archive
JobNext ==
    \/ \E module \in {"symbols", "unknown"}, model_ok \in BOOLEAN,
          generation_mode \in GenerationModes, p \in JsonContents,
          art_style \in ArtStyleConfigs :
          ReceiveJob("json", module, model_ok, generation_mode, p, art_style,
                     <<>>, <<>>)
    \/ \E module \in {"symbols", "unknown"}, model_ok \in BOOLEAN,
          generation_mode \in GenerationModes, p \in FilesContents,
          art_style \in ArtStyleConfigs, uploaded \in JobArchives \cup {<<>>} :
          \E reference_images \in
                IF art_style.mode = "reference_image"
                THEN SeqsUpTo({image \in ReferenceImages : image.ext # ""},
                              MaxImages) ELSE {<<>>} :
             ReceiveJob("files", module, model_ok, generation_mode, p, art_style,
                        reference_images, uploaded)
    \/ ReceiveJob("files", "symbols", TRUE, "reference_assets", SingleContent,
                  ArtStyleConfig("reference_image", NoneVal, NoComponents, NoneVal),
                  OversizeImages, <<>>)
    \/ BeginArtStyle
    \/ job.pc = "style_wait" /\ GeneratePresetStyle /\ UNCHANGED styleOnly
    \/ job.pc = "style_wait" /\ GenerateCustomAIEnhancedStyle
          /\ UNCHANGED styleOnly
    \/ job.pc = "style_wait" /\ ValidateReferenceImages /\ UNCHANGED styleOnly
    \/ /\ job.pc = "style_wait"
       /\ \E outcome \in UploadOutcomes : UploadTempImage(outcome)
       /\ UNCHANGED styleFrame
    \/ job.pc = "style_wait" /\ AnalyzeImages /\ UNCHANGED styleOnly
    \/ /\ job.pc = "style_wait"
       /\ \E deleted \in BOOLEAN : CleanupTempImage(deleted)
       /\ UNCHANGED styleFrame
    \/ job.pc = "style_wait" /\ LeaveReferenceImageStyle /\ UNCHANGED styleOnly
    \/ EndArtStyle
    \/ ProcessAssetReferences
    \/ ExecuteGeneration
    \/ \E t \in DOMAIN job.results : TaskSucceeds(t)
    \/ \E t \in DOMAIN job.results, stage \in {"prompt", "inference", "decode", "upload"} : TaskRaises(t, stage)
    \/ BuildResult

SpecJob == PipelineInit /\ [][JobNext]_vars

RaisedTasks == {t \in DOMAIN job.results : job.results[t].raised}

\* C2: the status of a module job result is completed iff successes = total
\* > 0, partial_completed iff 0 < successes < total, failed iff successes = 0
\* (total: the tasks of the job, successes: its outputs)
C2_ModuleStatusRule ==
    job.pc = "done" =>
        LET total == Len(generation_tasks)
            successes == Len(job.outputs)
        IN  /\ job.result.status = "completed" <=> (successes = total /\ total > 0)
            /\ job.result.status = "partial_completed" <=>
                    (0 < successes /\ successes < total)
            /\ job.result.status = "failed" <=> successes = 0

\* C3: the tasks of a module are launched together; a task that raises is
\* left out of the results and takes no sibling with it: of T launched tasks
\* of which k raise, T - k results come back, one for each task that did not
\* raise, and with 0 < k < T a prompt_only job is partial_completed
C3_IsolatedFailureFanOut ==
    /\ job.pc \in {"running", "done"} => DOMAIN job.results = DOMAIN generation_tasks
    /\ job.pc = "done" =>
        LET T == Len(generation_tasks)
            k == Cardinality(RaisedTasks)
        IN  /\ \A t \in DOMAIN job.results : job.results[t].cause # "launched"
            /\ Len(job.outputs) = T - k
            /\ job.result.num_outputs = T - k
            /\ \A t \in DOMAIN job.results \ RaisedTasks :
                  \E o \in DOMAIN job.outputs :
                      job.outputs[o] = job.results[t].value
            /\ (job.generation_mode = "prompt_only" /\ 0 < k /\ k < T)
                  => job.result.status = "partial_completed"

\* the job of counts 2, 1, 3 is over: 6 tasks, one raised, 5 outputs
C3_Witness ==
    /\ job.pc = "done"
    /\ params = ScenarioContent
    /\ Len(generation_tasks) = 6
    /\ Cardinality(RaisedTasks) = 1
    /\ Len(job.outputs) = 5
    /\ job.result.status = "partial_completed"

\* C6: a job whose style resolver raised is not aborted: it goes on with the
\* fallback descriptor
C6_StyleFallbackNotAbort ==
    job.style_raised =>
        /\ job.pc # "aborted"
        /\ job.art_style_data = FallbackStyle

\* C10: no job is aborted by the failure of a storage operation
C10_StorageFailureTaskLocal ==
    job.pc = "aborted" => job.cause # "storage"

-----------------------------------------------------------------------------
(* One complete-game job (JSON entry point)                                 *)

CompositeNext ==
    \/ \E generation_mode \in GenerationModes \cup {NoneVal},
          global_art_style \in
             {NoArtStyle,
              ArtStyleConfig("preset", "fantasy_medieval", NoComponents, NoneVal)}, names \in ModuleOrders :
          \E bodies \in ModuleBodies(names) :
             ReceiveComposite(generation_mode, global_art_style, names, bodies)
    \/ \E generation_mode \in GenerationModes,
          global_art_style \in
             {ArtStyleConfig("reference_image", NoneVal, NoComponents, NoneVal),
              ArtStyleConfig("preset", "fantasy_medieval", NoComponents, NoneVal)},
          names \in ModuleOrders,
          reference_images \in SeqsUpTo({image \in ReferenceImages : image.acceptable}, 1) :
          \E bodies \in ModuleBodies(names) :
             ReceiveCompositeWithFiles(generation_mode, global_art_style, names,
                                       bodies, reference_images)
    \/ BuildModuleRequest
    \/ ProcessGlobalFiles
    \/ composite.pc = "style_wait" /\ GeneratePresetStyle /\ UNCHANGED styleOnly
    \/ composite.pc = "style_wait" /\ GenerateCustomAIEnhancedStyle
          /\ UNCHANGED styleOnly
    \/ EndModuleStyle
    \/ ExecuteParallelModules
    \/ \E k \in DOMAIN composite.results :
          \E t \in DOMAIN composite.results[k] : ModuleTaskSucceeds(k, t)
    \/ \E k \in DOMAIN composite.results :
          \E t \in DOMAIN composite.results[k] : ModuleTaskRaises(k, t)
    \/ \E k \in DOMAIN composite.results : ModulePipelineRaises(k)
    \/ BuildCompleteResult

SpecComposite == PipelineInit /\ [][CompositeNext]_vars

ModuleStatuses ==
    {composite.module_results[k].status : k \in DOMAIN composite.module_results}

\* C7: the overall status is completed iff every module is completed,
\* partial_completed iff some module is completed or partial_completed and
\* not all are completed, failed otherwise
C7_CompositeStatusRule ==
    composite.pc = "done" =>
        LET all_completed == ModuleStatuses \subseteq {"completed"}
            some_output == ModuleStatuses \cap {"completed", "partial_completed"} # {}
        IN  /\ composite.status = "completed" <=> all_completed
            /\ composite.status = "partial_completed" <=>
                    (some_output /\ ~all_completed)
            /\ composite.status = "failed" <=> (~some_output /\ ~all_completed)

\* a job of two modules is over, one completed and one failed
C7_Witness ==
    /\ composite.pc = "done"
    /\ Len(composite.module_results) = 2
    /\ ModuleStatuses = {"completed", "failed"}
    /\ composite.status = "partial_completed"

\* C9: a request with an invalid part is rejected before any run_inference
\* call has been made for it
C9_ValidationBeforeInference ==
    composite.pc = "aborted" =>
        composite.inference_calls = 0 /\ style.inference_calls = 0

\* C11: every module pipeline of a composite job is started; the results are
\* aggregated only when every pipeline has ended; a pipeline that raised is
\* reported failed, and every other module has its entry, built from its own
\* tasks alone, none of which was cancelled
C11_CompositeBarrier ==
    /\ composite.pc \in {"running", "done"} =>
          DOMAIN composite.results = DOMAIN composite.names
    /\ composite.pc = "done" =>
          /\ DOMAIN composite.module_results = DOMAIN composite.names
          /\ \A k \in DOMAIN composite.names :
                LET entry == composite.module_results[k]
                    ended == {t \in DOMAIN composite.results[k] :
                                composite.results[k][t].cause # "launched"}
                    returned == {t \in ended : ~composite.results[k][t].raised}
                IN  /\ entry.module = composite.names[k]
                    /\ k \in composite.raised => entry.status = "failed"
                    /\ k \notin composite.raised =>
                          /\ ended = DOMAIN composite.results[k]
                          /\ entry.num_outputs = Cardinality(returned)
                          /\ entry.status =
                                ModuleStatus(Cardinality(returned),
                                             Len(composite.results[k]))

\* a job of two modules is over: the pipeline of the first raised, the second
\* completed with its two outputs
C11_Witness ==
    /\ composite.pc = "done"
    /\ composite.raised = {1}
    /\ Len(composite.module_results) = 2
    /\ composite.module_results[1].status = "failed"
    /\ composite.module_results[2].status = "completed"
    /\ composite.module_results[2].num_outputs = 2

C13_EmptyContentRejected ==
    /\ job.pc \notin {"idle", "aborted"} => AllItems(params) # {}
    /\ job.pc \in {"running", "done"} => generation_tasks # <<>>

\* the result carries the identity of the task
CarriesTask(result, task_info) ==
    /\ result.category = task_info.category
    /\ result.subcategory = task_info.subcategory
    /\ result.filename = task_info.filename
    /\ result.index = task_info.index
    /\ result.resolution = task_info.resolution

ReturnedTasks ==
    {t \in DOMAIN job.results :
        ~job.results[t].raised /\ job.results[t].cause # "launched"}

C15_ReferenceMapsReachExecutor ==
    (/\ job.generation_mode = "reference_assets"
     /\ asset_result.processing_success
     /\ job.pc \in {"running", "done"}) =>
        \A t \in ReturnedTasks :
            LET task_info == generation_tasks[t]
                reference_data == ReferenceData(job, asset_result)
                reference_prompt ==
                    get_reference_prompt_for_task(task_info,
                        _generate_reference_prompts_v2(asset_result.asset_structure,
                                                       job.module))
                held == SelectSeq(lookup_paths(task_info),
                                  LAMBDA p : HasKey(asset_result.image_urls, p))
            IN  /\ reference_prompt # NoneVal =>
                      ("Asset reference: " \o reference_prompt)
                          \in Range(build_complete_prompt_reference(reference_data))
                /\ held # <<>> =>
                      DictGet(asset_result.image_urls, held[1])
                          \in Range(inference_image_urls(job.generation_mode, task_info,
                                                         reference_data))

-----------------------------------------------------------------------------
(* The two reference lookups, over any task and any map                     *)

MaxEntries == 2    \* entries of a lookup map

\* the tasks a lookup is asked for
LookupTasks ==
    [category : {"base_symbols", "special_symbols"}, subcategory : Subcategories,
     filename : {"a", "wild"}]

\* the keys the ingestion of an archive may put in a lookup map: the three
\* levels of the tasks above
LookupKeys == UNION {Range(lookup_paths(t)) : t \in LookupTasks}

\* the lookup maps: dicts of at most MaxEntries entries, in any insertion
\* order, the value of a key being the reference made for it
LookupMaps ==
    {[i \in DOMAIN ks |-> [key |-> ks[i], value |-> "ref:" \o ks[i]]] :
        ks \in {q \in SeqsUpTo(LookupKeys, MaxEntries) :
                    \A i, j \in DOMAIN q : i # j => q[i] # q[j]}}

LookupInit ==
    /\ params = EmptyParams("symbols")
    /\ archive = <<>>
    /\ asset_result = EmptyAssetResult
    /\ generation_tasks = <<>>
    /\ parser = "none"
    /\ storage = {}
    /\ uuid_next = 0
    /\ style = IdleStyle
    /\ job = IdleJob
    /\ composite = IdleComposite
    /\ composer = IdleComposer
    /\ \E t \in LookupTasks, m \in LookupMaps :
          lookup = [IdleLookup EXCEPT !.pc = "start", !.task_info = t, !.map = m]

\* _generate_single_image asks for the reference images of the task
LookupImageUrls ==
    /\ lookup.pc = "start"
    /\ lookup' = [lookup EXCEPT
          !.pc = "image_urls",
          !.urls = get_reference_image_urls_for_task(lookup.task_info, lookup.map)]
    /\ UNCHANGED <<requestVars, decompVars, storeVars, style, job, composite, composer>>

\* a caller asks for the reference prompt of the task
LookupPrompt ==
    /\ lookup.pc = "start"
    /\ lookup' = [lookup EXCEPT
          !.pc = "prompt",
          !.prompt = get_reference_prompt_for_task(lookup.task_info, lookup.map)]
    /\ UNCHANGED <<requestVars, decompVars, storeVars, style, job, composite, composer>>

LookupNext ==
    \/ LookupImageUrls
    \/ LookupPrompt

SpecLookup == LookupInit /\ [][LookupNext]_vars

\* the entry of the finest of the three keys of the task that the map holds,
\* None when it holds none of them
BestMatch(task_info, map) ==
    LET category_key == task_info.category
        subcategory_key == category_key \o "." \o task_info.subcategory
        exact_key == subcategory_key \o "." \o task_info.filename
    IN  IF HasKey(map, exact_key) THEN map[KeyIndex(map, exact_key)].value
        ELSE IF HasKey(map, subcategory_key)
             THEN map[KeyIndex(map, subcategory_key)].value
        ELSE IF HasKey(map, category_key)
             THEN map[KeyIndex(map, category_key)].value
        ELSE NoneVal

\* C16: for any task and any lookup map, a reference lookup returns the
\* entry of the exact key category.subcategory.filename if the map holds it,
\* otherwise that of category.subcategory, otherwise that of category,
\* otherwise nothing: one best match, never a coarser entry beside a finer
\* one, never an entry of another category
C16_BestMatchLookup ==
    LET best == BestMatch(lookup.task_info, lookup.map)
    IN  /\ lookup.pc = "image_urls" =>
              lookup.urls = IF best = NoneVal THEN <<>> ELSE <<best>>
        /\ lookup.pc = "prompt" => lookup.prompt = best

\* s ends with suffix
EndsWith(s, suffix) ==
    /\ Len(suffix) <= Len(s)
    /\ SubSeq(s, Len(s) - Len(suffix) + 1, Len(s)) = suffix

\* C17: every result a task has returned was uploaded under a key that
\* starts with the output base and ends with
\* /{module}/{category}/{subcategory}/{filename}_{index:02d}.png, the index
\* zero-padded to 2 digits
C17_StorageKeyLayout ==
    job.pc \in {"running", "done"} =>
        \A t \in ReturnedTasks :
            LET task_info == generation_tasks[t]
                s3_key == job.results[t].value.s3_key
            IN  /\ s3_key \in storage
                /\ SubSeq(s3_key, 1, Len(output_base)) = output_base
                /\ EndsWith(s3_key,
                       "/" \o job.module \o "/" \o task_info.category \o "/"
                           \o task_info.subcategory \o "/" \o task_info.filename
                           \o "_" \o Pad2(task_info.index) \o ".png")

\* C18: in a reference-image style resolution started by a generation job,
\* the max the resolver is given is at most 10, the images staged to storage
\* are at most that max, and the multimodal call is made on at least 1 and at
\* most max signed URLs
C18_BoundedReferenceImages ==
    (style.mode = "reference_image" /\ style.pc \notin {"idle", "start"}) =>
        /\ style.max_images <= max_images_le
        /\ Cardinality(style.staged) <= style.max_images
        /\ style.inference_calls > 0 =>
              /\ Len(style.upload_results) >= 1
              /\ Len(style.upload_results) <= style.max_images

\* C19: when the answer to the AI-enhanced call is a JSON object that holds
\* components, the resolution returns; each of the 6 required values that is
\* missing (absent, or null) is the empty string in the descriptor, and an
\* empty base_prompt is replaced by the caller's input. The resolution raises
\* only when the provider raised, the answer is not JSON, or it holds no
\* components
C19_AIEnhancedResponseHandling ==
    (/\ style.mode = "custom_ai_enhanced" /\ style.model_ok
     /\ style.pc \in {"returned", "raised"}) =>
        LET r == style.response
            Blank(v) == v \in {Missing, NoneVal, ""} \/ Strip(v) = ""
        IN  /\ (r.kind = "json" /\ r.has_components) =>
                  /\ style.pc = "returned"
                  /\ style.result.components.base_prompt =
                        IF Blank(r.components.base_prompt)
                        THEN Strip(style.custom_prompt)
                        ELSE r.components.base_prompt
                  /\ \A f \in required_fields \ {"base_prompt"} :
                        style.result.components[f] =
                            IF r.components[f] \in {Missing, NoneVal} THEN ""
                            ELSE r.components[f]
            /\ style.pc = "raised" =>
                  r.kind \in {"raises", "bad_json"} \/ ~r.has_components

\* the configuration the claim expects module k to be resolved with
ExpectedArtStyle(k) ==
    IF composite.bodies[k].art_style = NoArtStyle THEN composite.global_art_style
    ELSE composite.bodies[k].art_style

\* C20: in a composite job, the resolver call made for a module has the
\* arguments of the global art style when the module body has no art_style,
\* and those of the module's own art_style when it has one; the style stored
\* for a module is the outcome of that configuration (or the fallback)
C20_GlobalStylePropagation ==
    /\ composite.pc = "style_wait" =>
          LET expected == ExpectedArtStyle(Len(composite.module_requests) + 1)
          IN  /\ style.mode = expected.mode
              /\ style.preset_theme = expected.preset_theme
              /\ expected.mode = "custom_ai_enhanced" =>
                    style.custom_prompt = Strip(expected.custom_prompt)
    /\ \A k \in DOMAIN composite.module_requests :
          composite.module_requests[k].art_style_data.mode
              \in {ExpectedArtStyle(k).mode, FallbackStyle.mode}

\* two modules under a global preset: the first has no art_style and got the
\* preset, the second has its own and got that one
C20_Witness ==
    /\ Len(composite.module_requests) = 2
    /\ composite.global_art_style.mode = "preset"
    /\ composite.bodies[1].art_style = NoArtStyle
    /\ composite.bodies[2].art_style.mode = "custom_ai_enhanced"
    /\ composite.module_requests[1].art_style_data.mode = "preset"
    /\ composite.module_requests[2].art_style_data.mode = "custom_ai_enhanced"

-----------------------------------------------------------------------------
(* Prompt composition, over any tasks, style descriptor and reference data  *)

MaxComposed == 2   \* tasks of a composition run, and compositions of one task

\* the tasks composed: a known category with a known subcategory, a known
\* category with another subcategory, a custom category
ComposerTasks ==
    {[filename |-> "a", description |-> "d1", resolution |-> "1024x1024",
      index |-> 1, category |-> "base_symbols", subcategory |-> "high_value"],
     [filename |-> "wild", description |-> "d2", resolution |-> "1024x1024",
      index |-> 2, category |-> "special_symbols", subcategory |-> "s1"],
     [filename |-> "b", description |-> "d3", resolution |-> "512x512",
      index |-> 1, category |-> "custom", subcategory |-> "s2"]}

\* the style descriptors: the fallback, a resolved preset
ComposerStyles == {FallbackStyle, generate_preset_style("fantasy_medieval").value}

\* reference_data: empty, with a description, with a description and a prompt
ComposerReferenceData ==
    {<<>>,
     <<[key |-> "asset_description", value |-> "Asset references from archive"]>>,
     <<[key |-> "asset_description", value |-> "Asset references from archive"],
       [key |-> "reference_prompt", value |-> "Create a slot machine symbol for A"]>>}

PromptInit ==
    /\ params = EmptyParams("symbols")
    /\ archive = <<>>
    /\ asset_result = EmptyAssetResult
    /\ generation_tasks = <<>>
    /\ parser = "none"
    /\ storage = {}
    /\ uuid_next = 0
    /\ style = IdleStyle
    /\ job = IdleJob
    /\ composite = IdleComposite
    /\ lookup = IdleLookup
    /\ \E tasks \in SeqsUpTo(ComposerTasks, MaxComposed) \ {<<>>},
          art_style_data \in ComposerStyles,
          reference_data \in ComposerReferenceData :
          composer = [tasks |-> tasks, art_style_data |-> art_style_data,
                      reference_data |-> reference_data,
                      given |-> <<tasks, art_style_data, reference_data>>,
                      prompts |-> [i \in DOMAIN tasks |-> <<>>]]

\* _generate_single_image of task i composes its prompt; the call reads its
\* three arguments and builds new lists
ComposePrompt(i) ==
    /\ Len(composer.prompts[i]) < MaxComposed
    /\ composer' = [composer EXCEPT
          !.prompts[i] = Append(@, build_complete_prompt(composer.tasks[i],
                                                         composer.art_style_data,
                                                         composer.reference_data))]
    /\ UNCHANGED <<requestVars, decompVars, storeVars, style, job, composite, lookup>>

PromptNext == \E i \in DOMAIN composer.tasks : ComposePrompt(i)

SpecPrompt == PromptInit /\ [][PromptNext]_vars

\* the reference clauses the claim allows: each only if its value is given
ReferenceClauses(reference_data) ==
    [i \in DOMAIN reference_data |->
        IF reference_data[i].key = "asset_description"
        THEN "Reference: " \o reference_data[i].value
        ELSE "Asset reference: " \o reference_data[i].value]

\* C21: the composed prompt is the comma-joined sequence of the content
\* clauses, "Art style: " + style_prompt, "Category: c, Subcategory: s", the
\* reference clauses only if given, the technical clause with the resolution
\* of the task, and "Quality: " + quality_tags, in this order
C21_PromptClauseOrder ==
    \A i \in DOMAIN composer.prompts :
        \A k \in DOMAIN composer.prompts[i] :
            LET task_info == composer.tasks[i]
            IN  composer.prompts[i][k] =
                    JoinWith(
                        <<build_content_prompt(task_info),
                          "Art style: " \o composer.art_style_data.style_prompt,
                          "Category: " \o task_info.category \o ", Subcategory: "
                              \o task_info.subcategory>>
                        \o ReferenceClauses(composer.reference_data)
                        \o <<"Technical specs: " \o task_info.resolution
                                \o " resolution, isolated on transparent background",
                             "Quality: " \o composer.art_style_data.quality_tags>>,
                        ", ")

\* a prompt was composed with both reference clauses
C21_Witness ==
    /\ Len(composer.reference_data) = 2
    /\ \E i \in DOMAIN composer.prompts :
          /\ composer.prompts[i] # <<>>
          /\ Contains(composer.prompts[i][1],
                      ", Asset reference: Create a slot machine symbol for A, Technical specs: ")

IngestedLeaves == SelectSeq(archive, LAMBDA leaf : leaf.depth = 3)

\* the file of the ingested tree made from the first kept leaf of the archive
\* that lies in category, and in subcategory unless subcategory is ""
FirstFile(category, subcategory) ==
    LET first == SelectSeq(IngestedLeaves, LAMBDA leaf :
                    /\ leaf.category = category
                    /\ subcategory # "" => leaf.subcategory = subcategory)[1]
    IN  SelectSeq(StructureFiles(asset_result.asset_structure), LAMBDA f :
            /\ f.category = first.category
            /\ f.subcategory = first.subcategory
            /\ f.file_info.full_filename = first.stem \o first.ext)[1]

\* C23: after an archive is ingested, the reference-prompt map holds, for
\* every file of the tree, that file's own prompt under
\* category.subcategory.identifier, the prompt of the first leaf of its
\* subcategory under category.subcategory, and the prompt of the first leaf of
\* its category under category
C23_FirstSeenWinsPrompts ==
    parser \in {"ingested", "reference"} =>
        LET Prompt(f) == _build_reference_prompt_v2(params.module, f.category,
                                                    f.subcategory, f.file_info)
            files == StructureFiles(asset_result.asset_structure)
        IN  \A i \in DOMAIN files :
                LET f == files[i]
                    subcategory_key == f.category \o "." \o f.subcategory
                IN  /\ DictGet(asset_result.reference_prompts,
                               subcategory_key \o "." \o f.file_info.filename)
                           = Prompt(f)
                    /\ DictGet(asset_result.reference_prompts, subcategory_key)
                           = Prompt(FirstFile(f.category, f.subcategory))
                    /\ DictGet(asset_result.reference_prompts, f.category)
                           = Prompt(FirstFile(f.category, ""))

\* the coarser entries alone: what C23 says of category.subcategory and of
\* category
CoarserPromptsFirstSeen ==
    parser \in {"ingested", "reference"} =>
        LET Prompt(f) == _build_reference_prompt_v2(params.module, f.category,
                                                    f.subcategory, f.file_info)
            files == StructureFiles(asset_result.asset_structure)
        IN  \A i \in DOMAIN files :
                /\ DictGet(asset_result.reference_prompts,
                           files[i].category \o "." \o files[i].subcategory)
                       = Prompt(FirstFile(files[i].category, files[i].subcategory))
                /\ DictGet(asset_result.reference_prompts, files[i].category)
                       = Prompt(FirstFile(files[i].category, ""))

\* C24: an ingested archive always gives a successful result that holds
\* every kept leaf in its tree, the path of every leaf in file_mappings and a
\* prompt for every leaf, category and subcategory, whatever the coverage
\* report says and whether or not the module expects categories; the report
\* is carried in processing_info.validation
C24_CoverageNonBlocking ==
    parser \in {"ingested", "reference"} =>
        LET files == StructureFiles(asset_result.asset_structure)
        IN  /\ asset_result.processing_success
            /\ Len(files) = Len(IngestedLeaves)
            /\ \A i \in DOMAIN IngestedLeaves :
                  LET leaf == IngestedLeaves[i]
                      key == leaf.category \o "." \o leaf.subcategory \o "." \o leaf.stem
                  IN  /\ \E k \in DOMAIN files :
                            /\ files[k].category = leaf.category
                            /\ files[k].subcategory = leaf.subcategory
                            /\ files[k].file_info.full_filename = leaf.stem \o leaf.ext
                      /\ HasKey(asset_result.file_mappings, key)
                      /\ HasKey(asset_result.reference_prompts, key)
                      /\ HasKey(asset_result.reference_prompts, leaf.category)
            /\ \A k \in DOMAIN asset_result.image_urls :
                  HasKey(asset_result.file_mappings, asset_result.image_urls[k].key)
            /\ asset_result.processing_info.validation
                  = _validate_asset_structure(asset_result.asset_structure, params.module)

\* an archive ingested for a module that expects categories, whose report
\* names a missing category, an unexpected one and a half-covered one
C24_Witness ==
    /\ parser = "ingested"
    /\ expected_categories(params.module) # <<>>
    /\ asset_result.processing_success
    /\ asset_result.processing_info.validation.missing_categories # <<>>
    /\ asset_result.processing_info.validation.unexpected_categories # <<>>
    /\ \E k \in DOMAIN asset_result.processing_info.validation.coverage :
          asset_result.processing_info.validation.coverage[k].coverage_percentage = 50
    /\ asset_result.image_urls # <<>>

\* ---------------------------------------------------------------------------
\* the parsing of one leaf: an archive of a single entry is ingested
\* ---------------------------------------------------------------------------

\* names of archive entries, without the extension
LeafStems == {"spin_btn_512x512", "gem_2", "wild-card", "ICON", "a", "bg_1920x1080_v2"}

ParsedLeaves ==
    {[category |-> d[1], subcategory |-> d[2], stem |-> st, ext |-> x, depth |-> 3] :
        d \in {<<"fantasy", "ui_buttons">>, <<"base_symbols", "s1">>},
        st \in LeafStems, x \in {".png", ".txt"}}

LeafInit ==
    /\ \E m \in Modules : params = EmptyParams(m)
    /\ \E leaf \in ParsedLeaves : archive = <<leaf>>
    /\ asset_result = EmptyAssetResult
    /\ generation_tasks = <<>>
    /\ parser = "none"
    /\ storage = {}
    /\ uuid_next = 0
    /\ style = IdleStyle
    /\ job = IdleJob
    /\ composite = IdleComposite
    /\ lookup = IdleLookup
    /\ composer = IdleComposer

LeafNext ==
    \/ IngestArchive /\ UNCHANGED pipelineVars
    \/ ParseReferences /\ UNCHANGED pipelineVars

SpecLeaf == LeafInit /\ [][LeafNext]_vars

\* the description C26 states: the identifier without a trailing _<w>x<h>,
\* its _ and - turned into spaces, every word capitalised
DescriptionOf(identifier) ==
    LET words == SplitWords(StripResolutionSuffix(identifier), 1, "")
    IN  JoinWith([k \in DOMAIN words |-> Capitalize(words[k])], " ")

\* C26: the file made from the archive leaf category/subcategory/name.ext has
\* the identifier name, the description made from name by removing only a
\* trailing resolution suffix, replacing _ and - with spaces and title-casing,
\* and the resolution token of name if it has one
C26_LeafParsing ==
    parser \in {"ingested", "reference"} =>
        \A i \in DOMAIN IngestedLeaves :
            LET leaf == IngestedLeaves[i]
                f == StructureFiles(asset_result.asset_structure)[i]
            IN  /\ f.category = leaf.category
                /\ f.subcategory = leaf.subcategory
                /\ f.file_info.filename = leaf.stem
                /\ f.file_info.description = DescriptionOf(leaf.stem)
                /\ f.file_info.resolution
                      = _extract_resolution_from_filename(leaf.stem)

\* the scenario of C26: spin_btn_512x512.png under fantasy/ui_buttons
LeafScenario ==
    (parser = "ingested" /\ archive[1].stem = "spin_btn_512x512") =>
        LET f == StructureFiles(asset_result.asset_structure)[1].file_info
        IN  /\ f.filename = "spin_btn_512x512"
            /\ f.description = "Spin Btn"
            /\ f.resolution = "512x512"

\* ---------------------------------------------------------------------------
\* preset resolution
\* ---------------------------------------------------------------------------

C27_TotalEqualsLaunched ==
    job.pc = "done" =>
        /\ job.result.total_tasks = Len(generation_tasks)
        /\ job.result.num_outputs <= job.result.total_tasks
        /\ job.result.total_tasks - job.result.num_outputs >= 0

\* what C27 says of the jobs that take their tasks from the declared content
TotalEqualsDeclaredLaunch ==
    (job.pc = "done" /\ job.reference_data.asset_items = <<>>) =>
        /\ job.result.total_tasks = Len(generation_tasks)
        /\ job.result.num_outputs <= job.result.total_tasks

\* ---------------------------------------------------------------------------
\* the composite job with uploaded files
\* ---------------------------------------------------------------------------

\* C29: in a composite job with files, every module request built for a
\* module without an art_style of its own carries the descriptor resolved
\* from the global style configuration (for the mode reference_image the one
\* obtained from the uploaded images, of mode "reference_image"), and the job
\* goes on to generate the modules with it: once every request is built it is
\* not aborted
C29_FilesGlobalStyle ==
    composite.entry = "files" =>
        /\ \A k \in DOMAIN composite.module_requests :
              composite.bodies[k].art_style = NoArtStyle =>
                  composite.module_requests[k].art_style_data.mode
                      = composite.global_art_style.mode
        /\ ~(/\ composite.pc = "aborted"
             /\ composite.names # <<>>
             /\ Len(composite.module_requests) = Len(composite.names))

\* the part of C29 that holds: a module without an art_style of its own gets
\* the preset descriptor of a global preset style
FilesGlobalPreset ==
    (composite.entry = "files" /\ composite.global_art_style.mode = "preset") =>
        \A k \in DOMAIN composite.module_requests :
            composite.bodies[k].art_style = NoArtStyle =>
                composite.module_requests[k].art_style_data
                    = generate_preset_style(composite.global_art_style.preset_theme).value

\* ---------------------------------------------------------------------------
\* the keys of the outputs of one job
\* ---------------------------------------------------------------------------

\* C28: two tasks of a job that differ in category, subcategory, filename or
\* index and have both returned were uploaded under different keys, so that
\* neither output has replaced the other
C28_NoOutputOverwrite ==
    job.pc \in {"running", "done"} =>
        \A t, u \in ReturnedTasks :
            (\/ generation_tasks[t].category # generation_tasks[u].category
             \/ generation_tasks[t].subcategory # generation_tasks[u].subcategory
             \/ generation_tasks[t].filename # generation_tasks[u].filename
             \/ generation_tasks[t].index # generation_tasks[u].index)
                => job.results[t].value.s3_key # job.results[u].value.s3_key

\* the part of C28 that holds: tasks that differ in filename or index get
\* different keys
DistinctNameOrIndexKeys ==
    job.pc \in {"running", "done"} =>
        \A t, u \in ReturnedTasks :
            (\/ generation_tasks[t].filename # generation_tasks[u].filename
             \/ generation_tasks[t].index # generation_tasks[u].index)
                => job.results[t].value.s3_key # job.results[u].value.s3_key

\* ---------------------------------------------------------------------------
\* a reference_assets job whose archive cannot be ingested
\* ---------------------------------------------------------------------------

\* C30: process_asset_references always returns. When it fails, its result
\* has processing_success False and an empty tree and empty maps, the job is
\* not aborted and its tasks are those decomposed from the declared content.
\* When it succeeds, every leaf of the archive is in the tree, the leaves
\* whose upload failed included
C30_IngestionFailureDegrades ==
    /\ (~asset_result.processing_success /\ asset_result.error # NoneVal) =>
          /\ asset_result.asset_structure = <<>>
          /\ asset_result.asset_items = <<>>
          /\ asset_result.reference_prompts = <<>>
          /\ asset_result.file_mappings = <<>>
          /\ asset_result.image_urls = <<>>
          /\ job.pc \in {"launch", "running", "done"}
          /\ job.reference_data = NoReferenceData
          /\ job.pc \in {"running", "done"} =>
                /\ generation_tasks = _parse_generation_tasks(params)
                /\ DOMAIN job.results = DOMAIN generation_tasks
    /\ asset_result.processing_success =>
          /\ job.pc \in {"launch", "running", "done"}
          /\ Len(StructureFiles(asset_result.asset_structure)) = Len(IngestedLeaves)
          /\ \A i \in DOMAIN IngestedLeaves :
                \E k \in DOMAIN StructureFiles(asset_result.asset_structure) :
                    StructureFiles(asset_result.asset_structure)[k].file_info.path
                        = LeafPath(IngestedLeaves[i])

\* a job whose archive could not be opened is over, with an output for a
\* declared item
C30_Witness ==
    /\ job.pc = "done"
    /\ ~asset_result.processing_success
    /\ asset_result.error = "invalid zip"
    /\ archive # <<>>
    /\ generation_tasks # <<>>
    /\ job.outputs # <<>>


====
